---- MODULE Spec2Model ----
(***************************************************************************)
(* Save-time rules of the django_vision models: the default-flag cascade   *)
(* of d_homestuff Address / ProductImage, the default-address validation   *)
(* of accounts Address, the loyalty counter of accounts CustomerProfile    *)
(* with its LoyaltyHistory log and tier thresholds, the role-derived       *)
(* permissions of accounts AdminProfile, the derived prices of d_homestuff *)
(* Product and of the two OrderItem models, the price properties of        *)
(* a_bookstore Book, the status and login-failure fields of accounts User, *)
(* the order number of d_homestuff Order, the completion timestamps of the *)
(* e_payment records, the profiles created with a user, and the slug of    *)
(* accounts SellerProfile.                                                 *)
(***************************************************************************)
EXTENDS Integers, Sequences, FiniteSets, TLC

\* ------------------------------------------------------------------ bounds
MaxRecord == 3
MaxCustomer == 2
MaxProduct == 2

\* primary keys; Address and ProductImage rows draw theirs from one pool, so
\* that MaxRecord bounds the number of rows of the two tables together
RecordIds == 1..MaxRecord
Customers == 1..MaxCustomer
Products == 1..MaxProduct

\* the two request threads whose calls may overlap
Procs == {"p1", "p2"}

VARIABLES
    hs_address,     \* d_homestuff Address table: pk -> row
    hs_image,       \* d_homestuff ProductImage table: pk -> row
    sv,             \* per request thread: the save() call in flight
    last,           \* the last completed, non-overlapping save() and the rows its update matched
    ac_address,     \* accounts Address table: pk -> row
    ac_last,        \* the last accounts Address.save() call and its outcome
    orm_refresh,    \* whether save() reloads a field that was assigned an F() expression
    profile,        \* the CustomerProfile row: the persisted loyalty counters and tier
    history,        \* the LoyaltyHistory rows of that profile, in insertion order
    instance,       \* per request thread: its in-memory CustomerProfile instance
    op,             \* per request thread: its position in the method call in flight
    lastcall,       \* the method call started last, its outcome, the rows before it
    admin_profile,  \* accounts AdminProfile table: pk -> row
    admin_last,     \* the last AdminProfile.save(): the pk and what the instance held before it
    hs_product,     \* the d_homestuff Product row
    hs_item,        \* the d_homestuff OrderItem row
    pay_item,       \* the e_payment OrderItem row
    price_last,     \* the last save() of one of these three and the instance after it
    book,           \* the a_bookstore Book whose prices are read
    book_out,       \* what its price properties returned
    user_row,       \* the accounts User row
    user_inst,      \* the in-memory User instance
    now,            \* the clock read by timezone.now()
    user_last,      \* the last User method call, its outcome, and the failed logins recorded since the last reset
    hs_order,       \* d_homestuff Order table: pk -> row
    order_sv,       \* per request thread: the Order.save() call in flight
    order_last,     \* the Order.save() call started last and its outcome
    ep_inst,        \* e_payment: the Payment/Transaction/Refund/Payout instance of the caller
    ep_row,         \* e_payment: the row of that record
    su_user,        \* accounts User table of the created users: pk -> row
    su_customer,    \* accounts CustomerProfile table: user pk -> whether the user has one
    su_seller,      \* accounts SellerProfile table: user pk -> row
    su_admin,       \* accounts AdminProfile table of the created users: user pk -> row
    su_last,        \* the last manager call or SellerProfile.save() and its outcome
    ep_hist         \* e_payment: whether the caller assigned the timestamp, the first save with status completed, the saves made

defaultVars == <<hs_address, hs_image, sv, last>>
accountVars == <<ac_address, ac_last>>
loyaltyVars == <<orm_refresh, profile, history, instance, op, lastcall>>
adminVars == <<admin_profile, admin_last>>
priceVars == <<hs_product, hs_item, pay_item, price_last>>
bookVars == <<book, book_out>>
userVars == <<user_row, user_inst, now, user_last>>
\* the variables of the sections up to a_bookstore Book, and those after it
earlierVars == <<defaultVars, accountVars, loyaltyVars, adminVars, priceVars, bookVars>>
orderVars == <<hs_order, order_sv, order_last>>
paymentVars == <<ep_inst, ep_row, ep_hist>>
signupVars == <<su_user, su_customer, su_seller, su_admin, su_last>>
laterVars == <<userVars, orderVars, paymentVars, signupVars>>
\* per section after a_bookstore Book, the variables of the other such sections
notUser == <<orderVars, paymentVars, signupVars>>
notOrder == <<user_row, user_inst, user_last, paymentVars, signupVars>>
notPayment == <<user_row, user_inst, user_last, orderVars, signupVars>>
notSignup == <<userVars, orderVars, paymentVars>>
vars == <<hs_address, hs_image, sv, last, ac_address, ac_last,
          orm_refresh, profile, history, instance, op, lastcall,
          admin_profile, admin_last,
          hs_product, hs_item, pay_item, price_last,
          book, book_out,
          user_row, user_inst, now, user_last,
          hs_order, order_sv, order_last,
          ep_inst, ep_row, ep_hist,
          su_user, su_customer, su_seller, su_admin, su_last>>

\* ---------------------------------------------------------- d_homestuff rows
NoAddress == [exists |-> FALSE, customer |-> 0, is_default |-> FALSE]
NoImage == [exists |-> FALSE, product |-> 0, is_default |-> FALSE]

\* the default rows of every customer
Address_default_queryset_any_customer(tbl, self) ==
    {pk \in DOMAIN tbl : tbl[pk].exists /\ tbl[pk].is_default}

\* Address.save, line 291: the rows matched by
\* Address.objects.filter(customer=self.customer, is_default=True)
Address_default_queryset(tbl, self) ==
    {pk \in DOMAIN tbl :
        tbl[pk].exists /\ tbl[pk].customer = self.customer /\ tbl[pk].is_default}

\* an update that changes no row
Address_deactivate_none(tbl, self) ==
    tbl

\* Address.save, line 291: .update(is_default=False) on that queryset
Address_deactivate_others(tbl, self) ==
    [pk \in DOMAIN tbl |->
        IF pk \in Address_default_queryset(tbl, self)
        THEN [tbl[pk] EXCEPT !.is_default = FALSE]
        ELSE tbl[pk]]

\* Address.save, line 292: super().save() writes the instance's fields to its row
Address_super_save(tbl, self) ==
    [tbl EXCEPT ![self.pk] =
        [exists |-> TRUE, customer |-> self.customer, is_default |-> self.is_default]]

\* the cascade run after the row is written instead of before it
Address_save_late_cascade(tbl, self) ==
    IF self.is_default
    THEN Address_deactivate_others(Address_super_save(tbl, self), self)
    ELSE Address_super_save(tbl, self)

\* Address.save as a whole, when nothing else runs between its two statements
Address_save(tbl, self) ==
    IF self.is_default
    THEN Address_super_save(Address_deactivate_others(tbl, self), self)
    ELSE Address_super_save(tbl, self)

\* ProductImage.save, line 219: the rows matched by
\* ProductImage.objects.filter(product=self.product, is_default=True)
ProductImage_default_queryset(tbl, self) ==
    {pk \in DOMAIN tbl :
        tbl[pk].exists /\ tbl[pk].product = self.product /\ tbl[pk].is_default}

\* ProductImage.save, line 219: .update(is_default=False) on that queryset
ProductImage_deactivate_others(tbl, self) ==
    [pk \in DOMAIN tbl |->
        IF pk \in ProductImage_default_queryset(tbl, self)
        THEN [tbl[pk] EXCEPT !.is_default = FALSE]
        ELSE tbl[pk]]

\* ProductImage.save, line 220: super().save()
ProductImage_super_save(tbl, self) ==
    [tbl EXCEPT ![self.pk] =
        [exists |-> TRUE, product |-> self.product, is_default |-> self.is_default]]

\* ProductImage.save as a whole
ProductImage_save(tbl, self) ==
    IF self.is_default
    THEN ProductImage_super_save(ProductImage_deactivate_others(tbl, self), self)
    ELSE ProductImage_super_save(tbl, self)

Idle == [pc |-> "idle", model |-> "none", pk |-> 0, owner |-> 0]

NoSave == [model |-> "none", pk |-> 0, owner |-> 0, is_default |-> FALSE, updated |-> {}]

\* --------------------------------------------- non-overlapping save() calls
AddressSave(pk, customer, is_default) ==
    LET self == [pk |-> pk, customer |-> customer, is_default |-> is_default]
    IN  /\ ~hs_image[pk].exists
        /\ hs_address' = Address_save(hs_address, self)
        /\ last' = [model |-> "Address", pk |-> pk, owner |-> customer,
                    is_default |-> is_default,
                    updated |-> IF is_default
                                THEN Address_default_queryset(hs_address, self) ELSE {}]
        /\ UNCHANGED <<hs_image, sv, accountVars, loyaltyVars,
                 adminVars, priceVars, bookVars, laterVars>>

ProductImageSave(pk, product, is_default) ==
    LET self == [pk |-> pk, product |-> product, is_default |-> is_default]
    IN  /\ ~hs_address[pk].exists
        /\ hs_image' = ProductImage_save(hs_image, self)
        /\ last' = [model |-> "ProductImage", pk |-> pk, owner |-> product,
                    is_default |-> is_default,
                    updated |-> IF is_default
                                THEN ProductImage_default_queryset(hs_image, self) ELSE {}]
        /\ UNCHANGED <<hs_address, sv, accountVars, loyaltyVars,
                 adminVars, priceVars, bookVars, laterVars>>

NextDefaultSeq ==
    \/ \E pk \in RecordIds, c \in Customers, d \in BOOLEAN : AddressSave(pk, c, d)
    \/ \E pk \in RecordIds, pr \in Products, d \in BOOLEAN : ProductImageSave(pk, pr, d)

\* ------------------------------------------------- overlapping save() calls
\* save() with is_default = False is the single statement super().save()
AddressSavePlain(p, pk, customer) ==
    /\ sv[p].pc = "idle"
    /\ ~hs_image[pk].exists
    /\ hs_address' = Address_super_save(hs_address,
            [pk |-> pk, customer |-> customer, is_default |-> FALSE])
    /\ UNCHANGED <<hs_image, sv, last, accountVars, loyaltyVars,
                 adminVars, priceVars, bookVars, laterVars>>

\* save() with is_default = True, first statement: the update of the siblings
AddressSaveDeactivate(p, pk, customer) ==
    /\ sv[p].pc = "idle"
    /\ ~hs_image[pk].exists
    /\ hs_address' = Address_deactivate_others(hs_address,
            [pk |-> pk, customer |-> customer, is_default |-> TRUE])
    /\ sv' = [sv EXCEPT ![p] = [pc |-> "super_save", model |-> "Address",
                                pk |-> pk, owner |-> customer]]
    /\ UNCHANGED <<hs_image, last, accountVars, loyaltyVars,
                 adminVars, priceVars, bookVars, laterVars>>

\* save() with is_default = True, second statement: super().save()
AddressSaveSuper(p) ==
    /\ sv[p].pc = "super_save"
    /\ sv[p].model = "Address"
    /\ hs_address' = Address_super_save(hs_address,
            [pk |-> sv[p].pk, customer |-> sv[p].owner, is_default |-> TRUE])
    /\ sv' = [sv EXCEPT ![p] = Idle]
    /\ UNCHANGED <<hs_image, last, accountVars, loyaltyVars,
                 adminVars, priceVars, bookVars, laterVars>>

ProductImageSavePlain(p, pk, product) ==
    /\ sv[p].pc = "idle"
    /\ ~hs_address[pk].exists
    /\ hs_image' = ProductImage_super_save(hs_image,
            [pk |-> pk, product |-> product, is_default |-> FALSE])
    /\ UNCHANGED <<hs_address, sv, last, accountVars, loyaltyVars,
                 adminVars, priceVars, bookVars, laterVars>>

ProductImageSaveDeactivate(p, pk, product) ==
    /\ sv[p].pc = "idle"
    /\ ~hs_address[pk].exists
    /\ hs_image' = ProductImage_deactivate_others(hs_image,
            [pk |-> pk, product |-> product, is_default |-> TRUE])
    /\ sv' = [sv EXCEPT ![p] = [pc |-> "super_save", model |-> "ProductImage",
                                pk |-> pk, owner |-> product]]
    /\ UNCHANGED <<hs_address, last, accountVars, loyaltyVars,
                 adminVars, priceVars, bookVars, laterVars>>

ProductImageSaveSuper(p) ==
    /\ sv[p].pc = "super_save"
    /\ sv[p].model = "ProductImage"
    /\ hs_image' = ProductImage_super_save(hs_image,
            [pk |-> sv[p].pk, product |-> sv[p].owner, is_default |-> TRUE])
    /\ sv' = [sv EXCEPT ![p] = Idle]
    /\ UNCHANGED <<hs_address, last, accountVars, loyaltyVars,
                 adminVars, priceVars, bookVars, laterVars>>

NextDefaultConc ==
    \/ \E p \in Procs, pk \in RecordIds, c \in Customers : AddressSavePlain(p, pk, c)
    \/ \E p \in Procs, pk \in RecordIds, c \in Customers : AddressSaveDeactivate(p, pk, c)
    \/ \E p \in Procs : AddressSaveSuper(p)
    \/ \E p \in Procs, pk \in RecordIds, pr \in Products : ProductImageSavePlain(p, pk, pr)
    \/ \E p \in Procs, pk \in RecordIds, pr \in Products : ProductImageSaveDeactivate(p, pk, pr)
    \/ \E p \in Procs : ProductImageSaveSuper(p)

\* ------------------------------------------------------------ scope queries
DefaultAddresses(tbl, customer) ==
    {pk \in DOMAIN tbl : tbl[pk].exists /\ tbl[pk].customer = customer /\ tbl[pk].is_default}

DefaultImages(tbl, product) ==
    {pk \in DOMAIN tbl : tbl[pk].exists /\ tbl[pk].product = product /\ tbl[pk].is_default}

SiblingAddresses(tbl, customer) ==
    {pk \in DOMAIN tbl : tbl[pk].exists /\ tbl[pk].customer = customer}

\* C1: after any sequence of completed, non-overlapping save() calls every
\* customer has at most one default Address and every product at most one
\* default ProductImage.
C1_AtMostOneDefault ==
    /\ \A c \in Customers : Cardinality(DefaultAddresses(hs_address, c)) <= 1
    /\ \A pr \in Products : Cardinality(DefaultImages(hs_image, pr)) <= 1

\* a save with is_default = True has just completed in a scope whose default
\* was another record, next to a product with a default image
C1_Witness ==
    /\ last.model = "Address"
    /\ last.is_default
    /\ last.updated \ {last.pk} # {}
    /\ \E pr \in Products : DefaultImages(hs_image, pr) # {}

\* C2: after save() of an Address with is_default = True completes, its
\* customer's scope holds exactly one default record, the one just saved.
C2_SavedIsTheOnlyDefault ==
    (last.model = "Address" /\ last.is_default)
        => DefaultAddresses(hs_address, last.owner) = {last.pk}

\* the saved record has two siblings, one of which was the default before the save
C2_Witness ==
    /\ last.model = "Address"
    /\ last.is_default
    /\ Cardinality(SiblingAddresses(hs_address, last.owner)) >= 3
    /\ last.updated \ {last.pk} # {}
    /\ DefaultAddresses(hs_address, last.owner) = {last.pk}

\* C3: two overlapping save() calls that both set is_default = True never
\* leave or expose a scope with two records flagged is_default.
C3_NeverTwoDefaults ==
    /\ \A a, b \in RecordIds :
        (/\ a # b
         /\ hs_address[a].exists /\ hs_address[b].exists
         /\ hs_address[a].customer = hs_address[b].customer)
            => ~(hs_address[a].is_default /\ hs_address[b].is_default)
    /\ \A a, b \in RecordIds :
        (/\ a # b
         /\ hs_image[a].exists /\ hs_image[b].exists
         /\ hs_image[a].product = hs_image[b].product)
            => ~(hs_image[a].is_default /\ hs_image[b].is_default)

\* this step is the sibling update of a save() with is_default = True on a
\* record of a scope whose default is another record
ClearsAnotherDefault(p) ==
    /\ sv[p].pc = "idle"
    /\ sv'[p].pc = "super_save"
    /\ IF sv'[p].model = "Address"
       THEN DefaultAddresses(hs_address, sv'[p].owner) \ {sv'[p].pk} # {}
       ELSE DefaultImages(hs_image, sv'[p].owner) \ {sv'[p].pk} # {}

\* C11: when a scope has a default record and another record of the scope is
\* saved with is_default = True, the clearing of the old default never leaves
\* a state in which the scope has no record flagged is_default.
C11_NeverZeroDefaults ==
    [][\A p \in Procs :
        ClearsAnotherDefault(p) =>
            IF sv'[p].model = "Address"
            THEN DefaultAddresses(hs_address', sv'[p].owner) # {}
            ELSE DefaultImages(hs_image', sv'[p].owner) # {}
      ]_vars

\* C29: a save() of an Address changes another Address only when it is
\* saved with is_default = True, and then only by clearing is_default on an
\* address of the same customer; it changes no ProductImage.  The same holds
\* for a save() of a ProductImage, its product and the Address table.
C29_CascadeStaysInScope ==
    [][ /\ last'.model = "Address" =>
            /\ hs_image' = hs_image
            /\ \A pk \in RecordIds \ {last'.pk} :
                    hs_address'[pk] # hs_address[pk] =>
                        /\ last'.is_default
                        /\ hs_address[pk].exists
                        /\ hs_address[pk].customer = last'.owner
                        /\ hs_address'[pk] = [hs_address[pk] EXCEPT !.is_default = FALSE]
        /\ last'.model = "ProductImage" =>
            /\ hs_address' = hs_address
            /\ \A pk \in RecordIds \ {last'.pk} :
                    hs_image'[pk] # hs_image[pk] =>
                        /\ last'.is_default
                        /\ hs_image[pk].exists
                        /\ hs_image[pk].product = last'.owner
                        /\ hs_image'[pk] = [hs_image[pk] EXCEPT !.is_default = FALSE]
      ]_vars

\* a save with is_default = True has cleared the default of its customer
\* while another customer keeps a default address
C29_Witness ==
    /\ last.model = "Address"
    /\ last.is_default
    /\ last.updated \ {last.pk} # {}
    /\ \E pk \in RecordIds :
            /\ hs_address[pk].exists
            /\ hs_address[pk].customer # last.owner
            /\ hs_address[pk].is_default

\* ------------------------------------------------------- accounts Address
MaxAccountAddress == 2
MaxUser == 2

AccountAddressIds == 1..MaxAccountAddress
Users == 1..MaxUser
\* Address.AddressType, the first two of its five choices
AddressTypes == {"home", "work"}

NoAccountAddress == [exists |-> FALSE, user |-> 0, address_type |-> "none", is_default |-> FALSE]

\* the queryset of Address.clean: default addresses of self's user and type, self excluded
existing_default(tbl, self) ==
    {pk \in DOMAIN tbl :
        /\ tbl[pk].exists
        /\ tbl[pk].user = self.user
        /\ tbl[pk].address_type = self.address_type
        /\ tbl[pk].is_default
        /\ pk # self.pk}

\* a clean() that never raises
accounts_Address_clean_raises_never(tbl, self) ==
    FALSE

\* Address.clean: TRUE when it raises ValidationError
accounts_Address_clean_raises(tbl, self) ==
    self.is_default /\ existing_default(tbl, self) # {}

\* Address.save: clean() first, super().save() only when clean() returned
accounts_Address_save(tbl, self) ==
    IF accounts_Address_clean_raises(tbl, self)
    THEN [result |-> "ValidationError", table |-> tbl]
    ELSE [result |-> "ok",
          table |-> [tbl EXCEPT ![self.pk] =
                [exists |-> TRUE, user |-> self.user,
                 address_type |-> self.address_type, is_default |-> self.is_default]]]

NoAccountSave == [result |-> "none", pk |-> 0, user |-> 0, address_type |-> "none",
                  is_default |-> FALSE]

AccountAddressSave(pk, user, address_type, is_default) ==
    LET self == [pk |-> pk, user |-> user, address_type |-> address_type,
                 is_default |-> is_default]
        out == accounts_Address_save(ac_address, self)
    IN  /\ ac_address' = out.table
        /\ ac_last' = [result |-> out.result, pk |-> pk, user |-> user,
                       address_type |-> address_type, is_default |-> is_default]
        /\ UNCHANGED <<defaultVars, loyaltyVars, adminVars, priceVars, bookVars, laterVars>>

NextAccount ==
    \E pk \in AccountAddressIds, u \in Users, t \in AddressTypes, d \in BOOLEAN :
        AccountAddressSave(pk, u, t, d)

AccountDefaults(tbl, user, address_type) ==
    {pk \in DOMAIN tbl :
        /\ tbl[pk].exists /\ tbl[pk].user = user
        /\ tbl[pk].address_type = address_type /\ tbl[pk].is_default}

\* this step is a save with is_default = True made while another address of
\* the same user and type is the default
SavedOverAnotherDefault ==
    /\ ac_last'.result # "none"
    /\ ac_last'.is_default
    /\ AccountDefaults(ac_address, ac_last'.user, ac_last'.address_type) \ {ac_last'.pk} # {}

\* C10 as stated: saving an accounts Address with is_default = True while
\* another address of the same user and type is default succeeds, clears the
\* other address and leaves the saved one the only default of its scope.
C10_SaveClearsOtherDefault ==
    [][SavedOverAnotherDefault =>
        /\ ac_last'.result = "ok"
        /\ AccountDefaults(ac_address', ac_last'.user, ac_last'.address_type) = {ac_last'.pk}
      ]_vars

\* C10 amended: such a save raises ValidationError and persists nothing: no
\* row changes, so the other address keeps is_default = True and the saved
\* one does not become a default.
C10_SaveRejectedOtherKept ==
    [][SavedOverAnotherDefault =>
        /\ ac_last'.result = "ValidationError"
        /\ ac_address' = ac_address
        /\ AccountDefaults(ac_address', ac_last'.user, ac_last'.address_type)
                = AccountDefaults(ac_address, ac_last'.user, ac_last'.address_type)
      ]_vars

\* a rejected save of an existing address whose sibling of the same type is the default
C10_Witness ==
    /\ ac_last.result = "ValidationError"
    /\ ac_last.is_default
    /\ ac_address[ac_last.pk].exists
    /\ ac_address[ac_last.pk].user = ac_last.user
    /\ AccountDefaults(ac_address, ac_last.user, ac_last.address_type) \ {ac_last.pk} # {}

\* C21: a save() of an accounts Address with is_default = True made while a
\* different address of the same user and address_type is default raises
\* ValidationError and changes no row, and after every save at most one
\* address of each (user, address_type) is default.
C21_AtMostOneDefaultPerType ==
    [][/\ SavedOverAnotherDefault =>
            /\ ac_last'.result = "ValidationError"
            /\ ac_address' = ac_address
       /\ \A u \in Users, t \in AddressTypes :
            Cardinality(AccountDefaults(ac_address', u, t)) <= 1
      ]_vars

\* a user whose home default and work default coexist, after a save that
\* tried to make a second address the default of one of the two types
C21_Witness ==
    /\ ac_last.result = "ValidationError"
    /\ \E u \in Users :
        /\ ac_last.user = u
        /\ AccountDefaults(ac_address, u, "home") # {}
        /\ AccountDefaults(ac_address, u, "work") # {}

\* ------------------------------------------- accounts CustomerProfile loyalty
MaxEarned == 600
MaxHistory == 3
MaxTierPoints == 10001

\* the point amounts callers pass to add_loyalty_points and spend_loyalty_points
AddAmounts == {100, 500}
SpendAmounts == {60, 150}

\* the choices of CustomerProfile.loyalty_tier
Tiers == {"bronze", "silver", "gold", "platinum", "diamond"}

\* loyalty_points declared without the column constraint
IntegerField_check(value) ==
    TRUE

\* models.PositiveIntegerField: the column accepts only values >= 0
PositiveIntegerField_check(value) ==
    value >= 0

\* the silver threshold compared with > instead of >=
new_tier_strict_silver(points) ==
    IF points >= 10000 THEN "diamond"
    ELSE IF points >= 5000 THEN "platinum"
    ELSE IF points >= 2000 THEN "gold"
    ELSE IF points > 500 THEN "silver"
    ELSE "bronze"

\* update_loyalty_tier, the if/elif chain that picks new_tier
new_tier(points) ==
    IF points >= 10000 THEN "diamond"
    ELSE IF points >= 5000 THEN "platinum"
    ELSE IF points >= 2000 THEN "gold"
    ELSE IF points >= 500 THEN "silver"
    ELSE "bronze"

\* the row and the instance after update_loyalty_tier(): save(update_fields=
\* ['loyalty_tier']) runs only when the tier differs from the instance's
update_loyalty_tier_always_saves(row, inst) ==
    [row |-> [row EXCEPT !.loyalty_tier = new_tier(inst.loyalty_points)],
     inst |-> [inst EXCEPT !.loyalty_tier = new_tier(inst.loyalty_points)],
     saved |-> TRUE]

update_loyalty_tier(row, inst) ==
    IF new_tier(inst.loyalty_points) # inst.loyalty_tier
    THEN [row |-> [row EXCEPT !.loyalty_tier = new_tier(inst.loyalty_points)],
          inst |-> [inst EXCEPT !.loyalty_tier = new_tier(inst.loyalty_points)],
          saved |-> TRUE]
    ELSE [row |-> row, inst |-> inst, saved |-> FALSE]

\* an instance whose counter field was assigned F('loyalty_points') +/- points:
\* after a successful save() the field is reloaded from the row when the ORM
\* refreshes expression fields, and stays an expression otherwise
after_save(inst, row) ==
    IF orm_refresh
    THEN [inst EXCEPT !.loyalty_points = row.loyalty_points, !.is_expr = FALSE]
    ELSE [inst EXCEPT !.loyalty_points = 0, !.is_expr = TRUE]

\* CustomerProfile.objects.get(...): an instance holding the row's values
loaded(row) ==
    [loyalty_points |-> row.loyalty_points, is_expr |-> FALSE,
     loyalty_tier |-> row.loyalty_tier]

NewProfile == [loyalty_points |-> 0, loyalty_points_earned |-> 0,
               loyalty_points_spent |-> 0, loyalty_tier |-> "bronze"]

NotCalled == [pc |-> "idle", points |-> 0]

NoCall == [who |-> "none", name |-> "none", points |-> 0, ret |-> "none",
           saved |-> FALSE,
           pre |-> [profile |-> NewProfile, history |-> <<>>]]

AllIdle == \A i \in Procs : op[i].pc = "idle"

\* the record of a call that starts now
Called(i, name, points) ==
    [who |-> i, name |-> name, points |-> points, ret |-> "running",
     saved |-> FALSE,
     pre |-> [profile |-> profile, history |-> history]]

\* the record of the last call once thread i's call returns or raises
Returned(i, ret) ==
    IF lastcall.who = i THEN [lastcall EXCEPT !.ret = ret] ELSE lastcall

\* a thread obtains a fresh instance of the profile
Load(i, overlap) ==
    /\ op[i].pc = "idle"
    /\ overlap \/ AllIdle
    /\ instance[i] # loaded(profile)
    /\ instance' = [instance EXCEPT ![i] = loaded(profile)]
    /\ UNCHANGED <<orm_refresh, profile, history, op, lastcall, defaultVars, accountVars,
                 adminVars, priceVars, bookVars, laterVars>>

\* the UPDATE of add_loyalty_points without loyalty_points_earned
AddSave_points_only(i, points, overlap) ==
    /\ op[i].pc = "idle"
    /\ overlap \/ AllIdle
    /\ profile.loyalty_points_earned + points <= MaxEarned
    /\ Len(history) < MaxHistory
    /\ profile' = [profile EXCEPT !.loyalty_points = @ + points]
    /\ instance' = [instance EXCEPT ![i] = after_save(instance[i], profile')]
    /\ op' = [op EXCEPT ![i] = [pc |-> "add_log", points |-> points]]
    /\ lastcall' = Called(i, "add", points)
    /\ UNCHANGED <<orm_refresh, history, defaultVars, accountVars,
                 adminVars, priceVars, bookVars, laterVars>>

\* add_loyalty_points, lines 454-456: the two F() assignments and
\* save(update_fields=['loyalty_points', 'loyalty_points_earned'])
AddSave(i, points, overlap) ==
    /\ op[i].pc = "idle"
    /\ overlap \/ AllIdle
    /\ profile.loyalty_points_earned + points <= MaxEarned
    /\ Len(history) < MaxHistory
    /\ profile' = [profile EXCEPT !.loyalty_points = @ + points,
                                  !.loyalty_points_earned = @ + points]
    /\ instance' = [instance EXCEPT ![i] = after_save(instance[i], profile')]
    /\ op' = [op EXCEPT ![i] = [pc |-> "add_log", points |-> points]]
    /\ lastcall' = Called(i, "add", points)
    /\ UNCHANGED <<orm_refresh, history, defaultVars, accountVars,
                 adminVars, priceVars, bookVars, laterVars>>

\* add_loyalty_points, lines 458-464: LoyaltyHistory.objects.create(...,
\* balance_after=self.loyalty_points + points); an expression that refers to a
\* column cannot be inserted and create() raises ValueError
AddLog(i) ==
    /\ op[i].pc = "add_log"
    /\ IF instance[i].is_expr
       THEN /\ op' = [op EXCEPT ![i] = NotCalled]
            /\ lastcall' = Returned(i, "ValueError")
            /\ UNCHANGED history
       ELSE /\ history' = Append(history,
                    [points |-> op[i].points,
                     balance_after |-> instance[i].loyalty_points + op[i].points,
                     type |-> "earn"])
            /\ op' = [op EXCEPT ![i].pc = "add_tier"]
            /\ UNCHANGED lastcall
    /\ UNCHANGED <<orm_refresh, profile, instance, defaultVars, accountVars,
                 adminVars, priceVars, bookVars, laterVars>>

\* add_loyalty_points, line 466: self.update_loyalty_tier()
AddTier(i) ==
    /\ op[i].pc = "add_tier"
    /\ LET out == update_loyalty_tier(profile, instance[i])
       IN  /\ profile' = out.row
           /\ instance' = [instance EXCEPT ![i] = out.inst]
    /\ op' = [op EXCEPT ![i] = NotCalled]
    /\ lastcall' = Returned(i, "ok")
    /\ UNCHANGED <<orm_refresh, history, defaultVars, accountVars,
                 adminVars, priceVars, bookVars, laterVars>>

\* spend_loyalty_points, lines 470-471: the balance check on the instance's
\* value; comparing an int with an F() expression raises TypeError
SpendCheck(i, points, overlap) ==
    /\ op[i].pc = "idle"
    /\ overlap \/ AllIdle
    /\ Len(history) < MaxHistory
    /\ IF instance[i].is_expr
       THEN /\ lastcall' = [Called(i, "spend", points) EXCEPT !.ret = "TypeError"]
            /\ UNCHANGED op
       ELSE IF points > instance[i].loyalty_points
       THEN /\ lastcall' = [Called(i, "spend", points) EXCEPT !.ret = "ValueError"]
            /\ UNCHANGED op
       ELSE /\ lastcall' = Called(i, "spend", points)
            /\ op' = [op EXCEPT ![i] = [pc |-> "spend_save", points |-> points]]
    /\ UNCHANGED <<orm_refresh, profile, history, instance, defaultVars, accountVars,
                 adminVars, priceVars, bookVars, laterVars>>

\* spend_loyalty_points, lines 473-475: the two F() assignments and
\* save(update_fields=['loyalty_points', 'loyalty_points_spent']); the UPDATE
\* is refused with IntegrityError when the column constraint fails
SpendSave(i) ==
    /\ op[i].pc = "spend_save"
    /\ IF PositiveIntegerField_check(profile.loyalty_points - op[i].points)
       THEN /\ profile' = [profile EXCEPT !.loyalty_points = @ - op[i].points,
                                          !.loyalty_points_spent = @ + op[i].points]
            /\ instance' = [instance EXCEPT ![i] = after_save(instance[i], profile')]
            /\ op' = [op EXCEPT ![i].pc = "spend_log"]
            /\ UNCHANGED lastcall
       ELSE /\ instance' = [instance EXCEPT ![i].loyalty_points = 0, ![i].is_expr = TRUE]
            /\ op' = [op EXCEPT ![i] = NotCalled]
            /\ lastcall' = Returned(i, "IntegrityError")
            /\ UNCHANGED profile
    /\ UNCHANGED <<orm_refresh, history, defaultVars, accountVars,
                 adminVars, priceVars, bookVars, laterVars>>

\* spend_loyalty_points, lines 478-484: LoyaltyHistory.objects.create(...,
\* points=-points, balance_after=self.loyalty_points - points)
SpendLog(i) ==
    /\ op[i].pc = "spend_log"
    /\ IF instance[i].is_expr
       THEN /\ lastcall' = Returned(i, "ValueError")
            /\ UNCHANGED history
       ELSE /\ history' = Append(history,
                    [points |-> 0 - op[i].points,
                     balance_after |-> instance[i].loyalty_points - op[i].points,
                     type |-> "spend"])
            /\ lastcall' = Returned(i, "ok")
    /\ op' = [op EXCEPT ![i] = NotCalled]
    /\ UNCHANGED <<orm_refresh, profile, instance, defaultVars, accountVars,
                 adminVars, priceVars, bookVars, laterVars>>

\* update_loyalty_tier() called on a loaded instance; the record of the call
\* tells whether it reached self.save(update_fields=['loyalty_tier'])
UpdateLoyaltyTier(i) ==
    /\ op[i].pc = "idle"
    /\ ~instance[i].is_expr
    /\ LET out == update_loyalty_tier(profile, instance[i])
       IN  /\ profile' = out.row
           /\ instance' = [instance EXCEPT ![i] = out.inst]
           /\ lastcall' = [Called(i, "update_loyalty_tier", 0) EXCEPT
                              !.ret = "ok", !.saved = out.saved]
    /\ UNCHANGED <<orm_refresh, history, op, defaultVars, accountVars,
                 adminVars, priceVars, bookVars, laterVars>>

NextLoyaltySeq ==
    \/ \E i \in Procs : Load(i, FALSE)
    \/ \E i \in Procs, n \in AddAmounts : AddSave(i, n, FALSE)
    \/ \E i \in Procs : AddLog(i)
    \/ \E i \in Procs : AddTier(i)
    \/ \E i \in Procs, n \in SpendAmounts : SpendCheck(i, n, FALSE)
    \/ \E i \in Procs : SpendSave(i)
    \/ \E i \in Procs : SpendLog(i)

NextLoyaltyConc ==
    \/ \E i \in Procs : Load(i, TRUE)
    \/ \E i \in Procs, n \in AddAmounts : AddSave(i, n, TRUE)
    \/ \E i \in Procs : AddLog(i)
    \/ \E i \in Procs : AddTier(i)
    \/ \E i \in Procs, n \in SpendAmounts : SpendCheck(i, n, TRUE)
    \/ \E i \in Procs : SpendSave(i)
    \/ \E i \in Procs : SpendLog(i)

NextTier ==
    \E i \in Procs : UpdateLoyaltyTier(i)

\* ---------------------------------------------------------- loyalty properties
\* the thresholds of the loyalty tiers
Thresholds == {[at |-> 0, tier |-> "bronze"], [at |-> 500, tier |-> "silver"],
               [at |-> 2000, tier |-> "gold"], [at |-> 5000, tier |-> "platinum"],
               [at |-> 10000, tier |-> "diamond"]}

\* the label of the highest threshold not exceeding points
TierAt(points) ==
    LET reached == {th \in Thresholds : th.at <= points}
    IN  (CHOOSE th \in reached : \A other \in reached : other.at <= th.at).tier

TierRank == [t \in Tiers |->
    Cardinality({th \in Thresholds : th.at <= (CHOOSE x \in Thresholds : x.tier = t).at})]

RECURSIVE SumPoints(_)
SumPoints(h) == IF h = <<>> THEN 0 ELSE h[1].points + SumPoints(Tail(h))

CounterCallReturned ==
    AllIdle /\ lastcall.name \in {"add", "spend"} /\ lastcall.ret = "ok"

Delta == IF lastcall.name = "add" THEN lastcall.points ELSE 0 - lastcall.points

\* C4: overlapping spend_loyalty_points calls never both pass the balance
\* check against one balance that cannot cover both, and never drive the
\* persisted loyalty_points below zero.
C4_NoDoublePassedCheck ==
    /\ \A i, j \in Procs :
        (/\ i # j
         /\ op[i].pc = "spend_save" /\ op[j].pc = "spend_save"
         /\ instance[i].loyalty_points = instance[j].loyalty_points)
            => op[i].points + op[j].points <= instance[i].loyalty_points
    /\ profile.loyalty_points >= 0

\* C5: spend_loyalty_points(p) with p above the persisted balance ends in an
\* error and leaves the profile row (loyalty_points, loyalty_points_spent and
\* the rest) and the LoyaltyHistory rows as they were.
C5_RejectedSpendChangesNothing ==
    (/\ AllIdle
     /\ lastcall.name = "spend"
     /\ lastcall.points > lastcall.pre.profile.loyalty_points)
        => /\ lastcall.ret \in {"ValueError", "TypeError", "IntegrityError"}
           /\ profile = lastcall.pre.profile
           /\ history = lastcall.pre.history

\* spend(150) on balance 100 was rejected by the balance check
C5_Witness ==
    /\ AllIdle
    /\ lastcall.name = "spend"
    /\ lastcall.points = 150
    /\ lastcall.pre.profile.loyalty_points = 100
    /\ lastcall.ret = "ValueError"
    /\ profile.loyalty_points = 100

\* C6: every successful add_loyalty_points / spend_loyalty_points appends
\* exactly one LoyaltyHistory entry whose points is the signed delta and whose
\* balance_after is the new persisted balance, the old balance plus the delta.
C6_HistoryEntryMatchesBalance ==
    CounterCallReturned
        => /\ Len(history) = Len(lastcall.pre.history) + 1
           /\ SubSeq(history, 1, Len(lastcall.pre.history)) = lastcall.pre.history
           /\ history[Len(history)].points = Delta
           /\ profile.loyalty_points = lastcall.pre.profile.loyalty_points + Delta
           /\ history[Len(history)].balance_after = profile.loyalty_points

\* C7: after every completed add_loyalty_points / spend_loyalty_points the
\* persisted loyalty_tier is the tier the thresholds give to loyalty_points.
C7_TierFollowsPoints ==
    CounterCallReturned => profile.loyalty_tier = TierAt(profile.loyalty_points)

\* C8: update_loyalty_tier leaves the tier at the label of the highest
\* threshold not exceeding the points (499 bronze, 500 silver, 10000 and 10001
\* diamond), and no smaller points value gets a higher tier.
C8_TierIsHighestThreshold ==
    lastcall.name = "update_loyalty_tier"
        => /\ profile.loyalty_tier = TierAt(profile.loyalty_points)
           /\ instance[lastcall.who].loyalty_tier = TierAt(profile.loyalty_points)
           /\ profile.loyalty_points = 499 => profile.loyalty_tier = "bronze"
           /\ profile.loyalty_points = 500 => profile.loyalty_tier = "silver"
           /\ profile.loyalty_points \in {10000, 10001} => profile.loyalty_tier = "diamond"
           /\ \A th \in Thresholds, d \in {0, 1} :
                (0 <= th.at - d /\ th.at - d <= profile.loyalty_points)
                    => TierRank[new_tier(th.at - d)] <= TierRank[profile.loyalty_tier]

\* update_loyalty_tier moved a bronze profile with 500 points to silver
C8_Witness ==
    /\ lastcall.name = "update_loyalty_tier"
    /\ profile.loyalty_points = 500
    /\ lastcall.pre.profile.loyalty_tier = "bronze"
    /\ profile.loyalty_tier = "silver"

\* C9: in no reachable state has the persisted loyalty_points been changed
\* by a call whose LoyaltyHistory entry is missing: the entries' points add
\* up to the balance.
C9_CounterNeverAheadOfHistory ==
    SumPoints(history) = profile.loyalty_points

\* C18: from balance 0 and under calls that do not overlap, the persisted
\* loyalty_points is never negative; a spend_loyalty_points(p) lowers it only
\* when p is at most the persisted balance, and then by p, and a spend of
\* more than the balance is rejected and leaves the balance as it was.
C18_BalanceNeverNegative ==
    /\ profile.loyalty_points >= 0
    /\ (AllIdle /\ lastcall.name = "spend") =>
        /\ profile.loyalty_points # lastcall.pre.profile.loyalty_points =>
            /\ lastcall.points <= lastcall.pre.profile.loyalty_points
            /\ profile.loyalty_points
                  = lastcall.pre.profile.loyalty_points - lastcall.points
        /\ lastcall.points > lastcall.pre.profile.loyalty_points =>
            /\ lastcall.ret # "ok"
            /\ profile.loyalty_points = lastcall.pre.profile.loyalty_points

\* spend(60) on balance 100 was performed and left 40
C18_Witness ==
    /\ AllIdle
    /\ lastcall.name = "spend"
    /\ lastcall.points = 60
    /\ lastcall.pre.profile.loyalty_points = 100
    /\ profile.loyalty_points = 40

\* C19: update_loyalty_tier() saves exactly when the tier computed from the
\* instance's loyalty_points differs from the tier the instance holds, and
\* without a save the row is left as it was; called again on the same
\* instance, its loyalty_points unchanged, it saves nothing and leaves the
\* tier of the row and of the instance unchanged.
C19_SecondCallWritesNothing ==
    [][lastcall'.name = "update_loyalty_tier" =>
        LET i == lastcall'.who
        IN  /\ lastcall'.saved
                <=> TierAt(instance[i].loyalty_points) # instance[i].loyalty_tier
            /\ ~lastcall'.saved => profile' = profile
            /\ (/\ lastcall.name = "update_loyalty_tier"
                /\ lastcall.who = i
                /\ instance'[i].loyalty_points = instance[i].loyalty_points) =>
                    /\ ~lastcall'.saved
                    /\ profile'.loyalty_tier = profile.loyalty_tier
                    /\ instance'[i].loyalty_tier = instance[i].loyalty_tier
      ]_vars

\* the second call on an instance whose first call changed the tier: the
\* row is as it was before the call, while the other thread's instance still
\* holds the tier that the first call replaced
C19_Witness ==
    /\ lastcall.name = "update_loyalty_tier"
    /\ ~lastcall.saved
    /\ lastcall.pre.profile = profile
    /\ instance[lastcall.who].loyalty_tier = profile.loyalty_tier
    /\ \E j \in Procs :
        /\ j # lastcall.who
        /\ instance[j].loyalty_tier # profile.loyalty_tier

\* C28: between calls of add_loyalty_points and spend_loyalty_points on a
\* profile that started with its three counters at 0, loyalty_points equals
\* loyalty_points_earned minus loyalty_points_spent, and a spend that was
\* refused left loyalty_points, loyalty_points_earned and
\* loyalty_points_spent as they were.
C28_BalanceIsEarnedMinusSpent ==
    AllIdle =>
        /\ profile.loyalty_points =
                profile.loyalty_points_earned - profile.loyalty_points_spent
        /\ (/\ lastcall.name = "spend"
            /\ \/ lastcall.ret \in {"TypeError", "IntegrityError"}
               \/ /\ lastcall.ret = "ValueError"
                  /\ lastcall.points > lastcall.pre.profile.loyalty_points) =>
                /\ profile.loyalty_points = lastcall.pre.profile.loyalty_points
                /\ profile.loyalty_points_earned =
                        lastcall.pre.profile.loyalty_points_earned
                /\ profile.loyalty_points_spent =
                        lastcall.pre.profile.loyalty_points_spent

\* points were earned and spent, and a spend above the balance was refused
C28_Witness ==
    /\ AllIdle
    /\ profile.loyalty_points_earned > 0
    /\ profile.loyalty_points_spent > 0
    /\ profile.loyalty_points > 0
    /\ lastcall.name = "spend"
    /\ lastcall.ret = "ValueError"
    /\ lastcall.points > profile.loyalty_points

\* ------------------------------------------------------ accounts AdminProfile
\* the two AdminProfile rows whose permission sets are compared
AdminProfileIds == {1, 2}

\* AdminProfile.Role
Roles == {"superuser", "system_admin", "content_manager", "product_manager",
          "order_manager", "customer_support", "finance_manager",
          "marketing_manager", "analytics", "security"}

\* AdminProfile.SecurityLevel
SecurityLevels == {1, 2, 3, 4, 5}

\* the eleven BooleanFields of AdminProfile; a row's flags is the set of
\* those that are True
Capabilities == {"can_manage_users", "can_manage_sellers", "can_manage_products",
                 "can_manage_orders", "can_manage_content", "can_manage_promotions",
                 "can_view_reports", "can_manage_finances", "can_manage_settings",
                 "can_access_audit_logs", "can_manage_roles"}

\* the flag values an instance holds when save() is called: the field
\* defaults, one flag set by hand, all flags set
FlagChoices == {{}, {"can_view_reports"}, Capabilities}

NoAdminProfile == [exists |-> FALSE, role |-> "customer_support",
                   security_level |-> 1, flags |-> {}]

role_to_security_level_superuser_4 ==
    [r \in Roles |->
        CASE r \in {"superuser", "system_admin", "finance_manager", "security"} -> 4
          [] r \in {"product_manager", "order_manager", "marketing_manager",
                    "analytics"} -> 3
          [] r = "content_manager" -> 2
          [] r = "customer_support" -> 1]

\* the dict of AdminProfile.save()
role_to_security_level ==
    [r \in Roles |->
        CASE r = "superuser" -> 5
          [] r \in {"system_admin", "finance_manager", "security"} -> 4
          [] r \in {"product_manager", "order_manager", "marketing_manager",
                    "analytics"} -> 3
          [] r = "content_manager" -> 2
          [] r = "customer_support" -> 1]

\* AdminProfile.save(): the row written for the instance self
AdminProfile_save(self) ==
    [exists |-> TRUE,
     role |-> self.role,
     security_level |-> IF self.role \in DOMAIN role_to_security_level
                        THEN role_to_security_level[self.role]
                        ELSE self.security_level,
     flags |-> IF self.role = "superuser" THEN Capabilities ELSE self.flags]

NoAdminSave == [pk |-> 0, security_level |-> 1, flags |-> {}]

\* save() of an AdminProfile instance holding any role, level and flags
AdminProfileSave(pk, role, security_level, flags) ==
    LET self == [role |-> role, security_level |-> security_level, flags |-> flags]
    IN  /\ admin_profile' = [admin_profile EXCEPT ![pk] = AdminProfile_save(self)]
        /\ admin_last' = [pk |-> pk, security_level |-> security_level, flags |-> flags]
        /\ UNCHANGED <<defaultVars, accountVars, loyaltyVars, priceVars, bookVars, laterVars>>

NextAdmin ==
    \E pk \in AdminProfileIds, role \in Roles,
       security_level \in SecurityLevels, flags \in FlagChoices :
        AdminProfileSave(pk, role, security_level, flags)

\* the greatest value of the SecurityLevel enumeration
MaxSecurityLevel == CHOOSE m \in SecurityLevels : \A l \in SecurityLevels : l <= m

\* C12: after a save() of an AdminProfile whose role is superuser the row has
\* all eleven capability flags True and the greatest security level, whatever
\* flags and level the instance held when save() was called.
C12_SuperuserHasEverything ==
    \A pk \in AdminProfileIds :
        (admin_last.pk = pk /\ admin_profile[pk].role = "superuser") =>
            /\ admin_profile[pk].flags = Capabilities
            /\ Cardinality(admin_profile[pk].flags) = 11
            /\ admin_profile[pk].security_level = MaxSecurityLevel

\* a superuser profile saved from an instance with no flag set and level 1
C12_Witness ==
    /\ admin_last.pk # 0
    /\ admin_profile[admin_last.pk].role = "superuser"
    /\ admin_last.flags = {}
    /\ admin_last.security_level = 1
    /\ admin_profile[admin_last.pk].flags = Capabilities

\* C13: the permission set of a saved AdminProfile depends on its role only:
\* two saved profiles with the same role have the same security level and
\* the same eleven flags, whatever roles and flags they had before.
C13_PermissionsFollowRole ==
    \A a, b \in AdminProfileIds :
        (/\ admin_profile[a].exists
         /\ admin_profile[b].exists
         /\ admin_profile[a].role = admin_profile[b].role) =>
            /\ admin_profile[a].security_level = admin_profile[b].security_level
            /\ admin_profile[a].flags = admin_profile[b].flags

\* ------------------------------------------- Product and OrderItem prices
\* Money amounts are counted in hundredths of the currency unit, so that
\* Decimal('19.99') is 1999 and Decimal('100') is 10000.
MaxBaseUnits == 1
MaxQuantity == 3

\* base prices an instance may hold: whole units, zero and negative included
BasePrices == {u * 100 : u \in -1..MaxBaseUnits}
\* discount percents an instance may hold
DiscountPercents == {-5, 15, 50, 100, 150}
\* unit prices an instance may hold
UnitPrices == {1999, 2000}
\* quantities an instance may hold, one of them negative
Quantities == {-1} \cup 1..MaxQuantity
\* what the caller assigned to the derived field before save()
Assigned == {0, 77700}

Abs(x) == IF x < 0 THEN -x ELSE x

\* the hundredths in one step of a column with that many decimal places
quantum(decimal_places) == IF decimal_places = 0 THEN 100 ELSE 1

\* the value a DecimalField column of decimal_places places holds for the
\* Decimal value written to it: the nearest step, a tie going to the even
\* step (half_even) or away from zero, as the database at hand does
quantize(value, decimal_places, half_even) ==
    LET q == quantum(decimal_places)
        a == Abs(value)
        lo == (a \div q) * q
        r == a - lo
        up == \/ 2 * r > q
              \/ 2 * r = q /\ (~half_even \/ (lo \div q) % 2 = 1)
        m == IF up THEN lo + q ELSE lo
    IN  IF value < 0 THEN -m ELSE m

NoProduct == [exists |-> FALSE, base_price |-> 0, discount_percent |-> 0,
              final_price |-> 0]
NoOrderItem == [exists |-> FALSE, quantity |-> 0, unit_price |-> 0, total_price |-> 0]

Product_save_flat_discount(self) ==
    LET discount_amount == self.discount_percent * 100
    IN  [self EXCEPT !.final_price = self.base_price - discount_amount]

\* Product.save() up to super().save(): the instance with final_price set.
\* base_price is a whole number of units, so the division by 100 is exact.
Product_save(self) ==
    LET discount_amount == (self.base_price * self.discount_percent) \div 100
    IN  [self EXCEPT !.final_price = self.base_price - discount_amount]

\* super().save() of a Product: the row the columns hold for the instance
Product_super_save(self, half_even) ==
    [exists |-> TRUE,
     base_price |-> quantize(self.base_price, 0, half_even),
     discount_percent |-> self.discount_percent,
     final_price |-> quantize(self.final_price, 0, half_even)]

hs_OrderItem_save_keep_assigned(self) ==
    IF self.total_price # 0 THEN self
    ELSE [self EXCEPT !.total_price = self.unit_price * self.quantity]

\* d_homestuff OrderItem.save() up to super().save()
hs_OrderItem_save(self) ==
    [self EXCEPT !.total_price = self.unit_price * self.quantity]

\* super().save() of a d_homestuff OrderItem
hs_OrderItem_super_save(self, half_even) ==
    [exists |-> TRUE,
     quantity |-> self.quantity,
     unit_price |-> quantize(self.unit_price, 0, half_even),
     total_price |-> quantize(self.total_price, 0, half_even)]

pay_OrderItem_save_unit_price(self) ==
    [self EXCEPT !.total_price = self.unit_price]

\* e_payment OrderItem.save() up to super().save()
pay_OrderItem_save(self) ==
    [self EXCEPT !.total_price = self.unit_price * self.quantity]

\* super().save() of an e_payment OrderItem
pay_OrderItem_super_save(self, half_even) ==
    [exists |-> TRUE,
     quantity |-> self.quantity,
     unit_price |-> quantize(self.unit_price, 2, half_even),
     total_price |-> quantize(self.total_price, 2, half_even)]

NoPriceSave == [model |-> "none", result |-> "none", assigned |-> 0,
                base_price |-> 0, discount_percent |-> 0, final_price |-> 0,
                unit_price |-> 0, quantity |-> 0, total_price |-> 0]

\* Product.save() of an instance holding these values; the column check of
\* the PositiveIntegerField discount_percent rejects a negative value
ProductSave(base_price, discount_percent, final_price, half_even) ==
    LET self == Product_save([base_price |-> base_price,
                              discount_percent |-> discount_percent,
                              final_price |-> final_price])
        ok == PositiveIntegerField_check(self.discount_percent)
    IN  /\ hs_product' = IF ok THEN Product_super_save(self, half_even) ELSE hs_product
        /\ price_last' = [NoPriceSave EXCEPT
                             !.model = "Product",
                             !.result = IF ok THEN "ok" ELSE "IntegrityError",
                             !.assigned = final_price,
                             !.base_price = self.base_price,
                             !.discount_percent = self.discount_percent,
                             !.final_price = self.final_price]
        /\ UNCHANGED <<hs_item, pay_item>>
        /\ UNCHANGED <<defaultVars, accountVars, loyaltyVars, adminVars, bookVars, laterVars>>

\* d_homestuff OrderItem.save() of an instance holding these values
HsOrderItemSave(unit_price, quantity, total_price, half_even) ==
    LET self == hs_OrderItem_save([unit_price |-> unit_price,
                                   quantity |-> quantity,
                                   total_price |-> total_price])
        ok == PositiveIntegerField_check(self.quantity)
    IN  /\ hs_item' = IF ok THEN hs_OrderItem_super_save(self, half_even) ELSE hs_item
        /\ price_last' = [NoPriceSave EXCEPT
                             !.model = "d_homestuff.OrderItem",
                             !.result = IF ok THEN "ok" ELSE "IntegrityError",
                             !.assigned = total_price,
                             !.unit_price = self.unit_price,
                             !.quantity = self.quantity,
                             !.total_price = self.total_price]
        /\ UNCHANGED <<hs_product, pay_item>>
        /\ UNCHANGED <<defaultVars, accountVars, loyaltyVars, adminVars, bookVars, laterVars>>

\* e_payment OrderItem.save() of an instance holding these values
PayOrderItemSave(unit_price, quantity, total_price, half_even) ==
    LET self == pay_OrderItem_save([unit_price |-> unit_price,
                                    quantity |-> quantity,
                                    total_price |-> total_price])
        ok == PositiveIntegerField_check(self.quantity)
    IN  /\ pay_item' = IF ok THEN pay_OrderItem_super_save(self, half_even) ELSE pay_item
        /\ price_last' = [NoPriceSave EXCEPT
                             !.model = "e_payment.OrderItem",
                             !.result = IF ok THEN "ok" ELSE "IntegrityError",
                             !.assigned = total_price,
                             !.unit_price = self.unit_price,
                             !.quantity = self.quantity,
                             !.total_price = self.total_price]
        /\ UNCHANGED <<hs_product, hs_item>>
        /\ UNCHANGED <<defaultVars, accountVars, loyaltyVars, adminVars, bookVars, laterVars>>

NextPrice ==
    \/ \E base_price \in BasePrices, discount_percent \in DiscountPercents,
          final_price \in Assigned, half_even \in BOOLEAN :
            ProductSave(base_price, discount_percent, final_price, half_even)
    \/ \E unit_price \in UnitPrices, quantity \in Quantities,
          total_price \in Assigned, half_even \in BOOLEAN :
            HsOrderItemSave(unit_price, quantity, total_price, half_even)
    \/ \E unit_price \in UnitPrices, quantity \in Quantities,
          total_price \in Assigned, half_even \in BOOLEAN :
            PayOrderItemSave(unit_price, quantity, total_price, half_even)

\* C14: for a Product with base_price > 0 and 0 <= discount_percent <= 100,
\* the final_price that save() sets equals
\* base_price - base_price * discount_percent / 100, is at least 0 and at
\* most base_price, and so is the final_price the row holds.
C14_FinalPriceFormula ==
    (/\ price_last.model = "Product"
     /\ price_last.result = "ok"
     /\ price_last.base_price > 0
     /\ price_last.discount_percent \in 0..100) =>
        /\ 100 * price_last.final_price
              = 100 * price_last.base_price
                - price_last.base_price * price_last.discount_percent
        /\ price_last.final_price >= 0
        /\ price_last.final_price <= price_last.base_price
        /\ hs_product.final_price >= 0
        /\ hs_product.final_price <= hs_product.base_price

\* a Product of base price 1 saved with a discount of 15 percent
C14_Witness ==
    /\ price_last.model = "Product"
    /\ price_last.result = "ok"
    /\ price_last.base_price = 100
    /\ price_last.discount_percent = 15
    /\ price_last.final_price = 85
    /\ hs_product.exists

\* C15: a save() of a Product with base_price <= 0 or discount_percent > 100
\* is rejected and persists nothing, so the Product row never holds a
\* negative final_price or a final_price above its base_price.
C15_InvalidProductRejected ==
    /\ (/\ price_last.model = "Product"
        /\ \/ price_last.base_price <= 0
           \/ price_last.discount_percent > 100) => price_last.result # "ok"
    /\ hs_product.exists =>
        /\ hs_product.final_price >= 0
        /\ hs_product.final_price <= hs_product.base_price

\* C16 as stated: in every persisted record the derived field equals its
\* formula over the inputs, whatever the caller assigned to it before save().
C16_PersistedDerivedEqualsFormula ==
    /\ (price_last.model = "Product" /\ price_last.result = "ok") =>
        100 * hs_product.final_price
            = 100 * price_last.base_price
              - price_last.base_price * price_last.discount_percent
    /\ (price_last.model = "d_homestuff.OrderItem" /\ price_last.result = "ok") =>
        hs_item.total_price = price_last.unit_price * price_last.quantity
    /\ (price_last.model = "e_payment.OrderItem" /\ price_last.result = "ok") =>
        pay_item.total_price = price_last.unit_price * price_last.quantity

\* C16, amended: whatever the caller assigned to the derived field before
\* save(), the persisted value is the one recomputed from the instance's
\* inputs, rounded to the decimal places of its column: to whole units for
\* Product.final_price and the d_homestuff total_price, to hundredths for
\* the e_payment total_price.
C16_PersistedDerivedIsRecomputed ==
    /\ (price_last.model = "Product" /\ price_last.result = "ok") =>
        /\ hs_product.final_price % 100 = 0
        /\ 2 * Abs(100 * hs_product.final_price
                   - (100 * price_last.base_price
                      - price_last.base_price * price_last.discount_percent))
              <= 100 * 100
    /\ (price_last.model = "d_homestuff.OrderItem" /\ price_last.result = "ok") =>
        /\ hs_item.total_price % 100 = 0
        /\ 2 * Abs(hs_item.total_price
                   - price_last.unit_price * price_last.quantity) <= 100
    /\ (price_last.model = "e_payment.OrderItem" /\ price_last.result = "ok") =>
        pay_item.total_price = price_last.unit_price * price_last.quantity

\* a Product saved after the caller assigned 777 to final_price, whose
\* recomputed price 0.85 is stored as 1
C16_Witness ==
    /\ price_last.model = "Product"
    /\ price_last.result = "ok"
    /\ price_last.assigned = 77700
    /\ price_last.final_price = 85
    /\ hs_product.final_price = 100

MaxBookPrice == 12

\* the prices of a Book; discount_set is FALSE when discount_price is None
Books == {[base_price |-> b, discount_set |-> FALSE, discount_price |-> 0] :
              b \in 0..MaxBookPrice}
         \cup [base_price : 0..MaxBookPrice, discount_set : {TRUE},
               discount_price : 0..MaxBookPrice]

NoBook == [base_price |-> 0, discount_set |-> FALSE, discount_price |-> 0]
NotRead == [read |-> "none", raised |-> FALSE, value |-> 0]

\* the truth value of self.discount_price: None and Decimal('0') are false
discount_price_truthy(self) == self.discount_set /\ self.discount_price # 0

\* int(n / d) for d > 0: the quotient with its fraction dropped
int(n, d) == IF n >= 0 THEN n \div d ELSE 0 - ((0 - n) \div d)

\* Book.current_price
Book_current_price(self) ==
    IF discount_price_truthy(self) THEN self.discount_price ELSE self.base_price

\* Book.discount_percentage; a base_price of zero makes the division raise
Book_discount_percentage(self) ==
    IF discount_price_truthy(self)
    THEN IF self.base_price = 0
         THEN [read |-> "discount_percentage", raised |-> TRUE, value |-> 0]
         ELSE [read |-> "discount_percentage", raised |-> FALSE,
               value |-> int((self.base_price - self.discount_price) * 100,
                             self.base_price)]
    ELSE [read |-> "discount_percentage", raised |-> FALSE, value |-> 0]

\* book.current_price is read
ReadCurrentPrice ==
    /\ book_out' = [read |-> "current_price", raised |-> FALSE,
                    value |-> Book_current_price(book)]
    /\ UNCHANGED <<book, defaultVars, accountVars, loyaltyVars, adminVars, priceVars,
                   laterVars>>

\* book.discount_percentage is read
ReadDiscountPercentage ==
    /\ book_out' = Book_discount_percentage(book)
    /\ UNCHANGED <<book, defaultVars, accountVars, loyaltyVars, adminVars, priceVars,
                   laterVars>>

NextBook ==
    \/ ReadCurrentPrice
    \/ ReadDiscountPercentage

\* n / d for d > 0 rounded to the nearest integer, a tie to the even one
RoundDiv(n, d) ==
    LET a == Abs(n)
        lo == a \div d
        r == a - lo * d
        m == IF 2 * r > d \/ (2 * r = d /\ lo % 2 = 1) THEN lo + 1 ELSE lo
    IN  IF n < 0 THEN 0 - m ELSE m

\* C20: discount_percentage returns round((base_price - discount_price) /
\* base_price * 100) whenever a discount price is set, 100 for a discount
\* price of 0, and returns 0 when no discount price is set.
C20_DiscountPercentageIsRounded ==
    (book_out.read = "discount_percentage" /\ book.base_price > 0) =>
        /\ ~book_out.raised
        /\ book_out.value =
            IF book.discount_set
            THEN RoundDiv((book.base_price - book.discount_price) * 100,
                          book.base_price)
            ELSE 0

\* ------------------------------------------------------------ accounts User
\* A DateTimeField holds 0 for None and the clock value otherwise.
MaxClock == 3
MaxAttempts == 2
MaxFailedCalls == 5

\* the account_status values used: one that needs no reason, two that do
AccountStatuses == {"active", "suspended", "banned"}
\* status_reason: empty, or some text
StatusReasons == {"", "reason"}

UserFields == {"account_status", "status_reason", "status_changed_date",
               "failed_login_attempts", "locked_until"}

NoUser == [exists |-> FALSE, account_status |-> "active", status_reason |-> "",
           status_changed_date |-> 0, failed_login_attempts |-> 0,
           locked_until |-> 0]

\* User(...): an unsaved instance with the field defaults
NewUser == [pk |-> FALSE, account_status |-> "active", status_reason |-> "",
            status_changed_date |-> 0, failed_login_attempts |-> 0,
            is_expr |-> FALSE, locked_until |-> 0]

\* User.objects.get(pk=...): an instance holding the row's values
User_loaded(row) ==
    [pk |-> TRUE, account_status |-> row.account_status,
     status_reason |-> row.status_reason,
     status_changed_date |-> row.status_changed_date,
     failed_login_attempts |-> row.failed_login_attempts,
     is_expr |-> FALSE, locked_until |-> row.locked_until]

\* super().save(update_fields=...): the row after the named columns are
\* written; a column assigned F('failed_login_attempts') + 1 is computed
\* from the row
User_super_save(row, self, update_fields) ==
    [exists |-> TRUE,
     account_status |-> IF "account_status" \in update_fields
                        THEN self.account_status ELSE row.account_status,
     status_reason |-> IF "status_reason" \in update_fields
                       THEN self.status_reason ELSE row.status_reason,
     status_changed_date |-> IF "status_changed_date" \in update_fields
                             THEN self.status_changed_date
                             ELSE row.status_changed_date,
     failed_login_attempts |-> IF "failed_login_attempts" \in update_fields
                               THEN IF self.is_expr
                                    THEN row.failed_login_attempts + 1
                                    ELSE self.failed_login_attempts
                               ELSE row.failed_login_attempts,
     locked_until |-> IF "locked_until" \in update_fields
                      THEN self.locked_until ELSE row.locked_until]

\* the instance after a successful save: it has a pk, and a field that held
\* an F() expression and was written is reloaded or stays an expression
User_after_save(row, self, update_fields) ==
    IF self.is_expr /\ "failed_login_attempts" \in update_fields /\ orm_refresh
    THEN [self EXCEPT !.pk = TRUE, !.is_expr = FALSE,
                      !.failed_login_attempts = row.failed_login_attempts]
    ELSE [self EXCEPT !.pk = TRUE]

\* User.save(): the outcome, the row and the instance after it
User_save(row, self, clock, update_fields) ==
    LET changed == self.pk /\ row.account_status # self.account_status
        s1 == IF changed THEN [self EXCEPT !.status_changed_date = clock] ELSE self
    IN  IF s1.account_status \in {"suspended", "banned"} /\ s1.status_reason = ""
        THEN [ret |-> "ValidationError", row |-> row, inst |-> s1]
        ELSE LET written == User_super_save(row, s1, update_fields)
             IN  [ret |-> "ok", row |-> written,
                  inst |-> User_after_save(written, s1, update_fields)]

\* the row of a user created with the field defaults
CreatedUser == User_super_save(NoUser, NewUser, UserFields)

NoUserCall == [name |-> "none", ret |-> "none", calls |-> 0]

\* the caller assigns account_status and status_reason and calls save()
UserSave(account_status, status_reason) ==
    LET self == [user_inst EXCEPT !.account_status = account_status,
                                  !.status_reason = status_reason]
        out == User_save(user_row, self, now, UserFields)
    IN  /\ self.is_expr => user_row.failed_login_attempts < MaxAttempts
        /\ user_row' = out.row
        /\ user_inst' = out.inst
        /\ user_last' = [user_last EXCEPT !.name = "save", !.ret = out.ret]
        /\ UNCHANGED <<now, earlierVars, notUser>>

\* save() of the instance as it is
UserSaveAgain ==
    /\ user_inst.pk
    /\ UserSave(user_inst.account_status, user_inst.status_reason)

\* user.refresh_from_db()
UserLoad ==
    /\ user_row.exists
    /\ user_inst # User_loaded(user_row)
    /\ user_inst' = User_loaded(user_row)
    /\ UNCHANGED <<user_row, now, user_last, earlierVars, notUser>>

\* time passes
Tick ==
    /\ now < MaxClock
    /\ now' = now + 1
    /\ UNCHANGED <<user_row, user_inst, user_last, earlierVars, notUser>>

\* reset_failed_logins()
ResetFailedLogins ==
    /\ user_inst.pk
    /\ LET self == [user_inst EXCEPT !.failed_login_attempts = 0,
                                      !.is_expr = FALSE,
                                      !.locked_until = 0]
           out == User_save(user_row, self, now, {"failed_login_attempts", "locked_until"})
       IN  /\ user_row' = out.row
           /\ user_inst' = out.inst
           /\ user_last' = [name |-> "reset_failed_logins", ret |-> out.ret,
                            calls |-> IF out.ret = "ok" THEN 0 ELSE user_last.calls]
    /\ UNCHANGED <<now, earlierVars, notUser>>

\* record_failed_login(): line 271 assigns F('failed_login_attempts') + 1,
\* line 272 compares the field with 5, which raises TypeError for an
\* expression; lines 273-274 set locked_until and save the two fields
RecordFailedLogin ==
    /\ user_inst.pk
    /\ user_last.calls < MaxFailedCalls
    /\ LET s1 == [user_inst EXCEPT !.failed_login_attempts = 0, !.is_expr = TRUE]
       IN  IF s1.is_expr
           THEN /\ user_inst' = s1
                /\ user_last' = [name |-> "record_failed_login", ret |-> "TypeError",
                                 calls |-> user_last.calls + 1]
                /\ UNCHANGED user_row
           ELSE LET s2 == IF s1.failed_login_attempts >= 5
                          THEN [s1 EXCEPT !.locked_until = now + 30]
                          ELSE s1
                    out == User_save(user_row, s2, now,
                                     {"failed_login_attempts", "locked_until"})
                IN  /\ user_row' = out.row
                    /\ user_inst' = out.inst
                    /\ user_last' = [name |-> "record_failed_login", ret |-> out.ret,
                                     calls |-> user_last.calls + 1]
    /\ UNCHANGED <<now, earlierVars, notUser>>

NextLogin ==
    \/ UserSaveAgain
    \/ UserLoad
    \/ Tick
    \/ ResetFailedLogins
    \/ RecordFailedLogin

NextUser ==
    \/ \E account_status \in AccountStatuses, status_reason \in StatusReasons :
            UserSave(account_status, status_reason)
    \/ UserLoad
    \/ Tick

\* C22: after five record_failed_login() calls with no reset in between the
\* row has failed_login_attempts = 5 and a locked_until; after fewer than
\* five locked_until is still None; and reset_failed_logins() leaves
\* failed_login_attempts = 0 and locked_until None.
C22_FiveFailuresLock ==
    /\ (user_last.name = "record_failed_login" /\ user_last.calls = 5) =>
        /\ user_row.failed_login_attempts = 5
        /\ user_row.locked_until # 0
    /\ (user_last.name = "record_failed_login" /\ user_last.calls < 5) =>
        user_row.locked_until = 0
    /\ (user_last.name = "reset_failed_logins" /\ user_last.ret = "ok") =>
        /\ user_row.failed_login_attempts = 0
        /\ user_row.locked_until = 0

\* this step is a call of save() on an instance that is suspended or banned
\* and has no status_reason
SavedWithoutReason ==
    /\ user_last'.name = "save"
    /\ user_inst'.account_status \in {"suspended", "banned"}
    /\ user_inst'.status_reason = ""
    /\ user_inst' # user_inst

\* C25 as stated: a save() of a suspended or banned user without
\* status_reason raises ValidationError and leaves the row unchanged, a
\* suspended or banned row always has a status_reason, and the row's
\* status_changed_date changes in a save exactly when that save changes the
\* stored account_status.
C25_StatusDateFollowsStatus ==
    [][/\ SavedWithoutReason =>
            /\ user_last'.ret = "ValidationError"
            /\ user_row' = user_row
       /\ user_row'.account_status \in {"suspended", "banned"} =>
            user_row'.status_reason # ""
       /\ (user_row.exists /\ user_row'.account_status # user_row.account_status) =>
            user_row'.status_changed_date = now
       /\ user_row'.status_changed_date # user_row.status_changed_date =>
            (user_row.exists /\ user_row'.account_status # user_row.account_status)
      ]_vars

\* -------------------------------------------------------- d_homestuff Order
\* The clock `now` counts half seconds here, so that two instants can fall
\* into one second of the '%Y%m%d-%H%M%S' format.
MaxOrder == 2
MaxSaves == 3
TicksPerSecond == 2

OrderIds == 1..MaxOrder

\* an order_number: empty, given by the caller, or generated from a second
EmptyNumber == [prefix |-> "", stamp |-> 0]
GivenNumber == [prefix |-> "GIVEN", stamp |-> 0]

NoOrder == [exists |-> FALSE, order_number |-> EmptyNumber]
OrderIdle == [pc |-> "idle", pk |-> 0, order_number |-> EmptyNumber]
NoOrderSave == [pk |-> 0, given |-> EmptyNumber, order_number |-> EmptyNumber,
                ret |-> "none"]

\* f"ORD-{datetime.datetime.now().strftime('%Y%m%d-%H%M%S')}"
generated_order_number(clock) ==
    [prefix |-> "ORD", stamp |-> clock \div TicksPerSecond]

\* the order_number an instance holds when save() is called: a new Order has
\* none or one given by the caller, a loaded one has the row's or was blanked
InstanceNumbers(pk) ==
    IF hs_order[pk].exists
    THEN {hs_order[pk].order_number, EmptyNumber}
    ELSE {EmptyNumber, GivenNumber}

\* Order.save(), lines 360-362: the number is generated when the instance
\* has none
OrderSaveNumber(p, pk, order_number) ==
    /\ order_sv[p].pc = "idle"
    /\ \A q \in Procs : order_sv[q].pk # pk
    /\ order_number \in InstanceNumbers(pk)
    /\ order_sv' = [order_sv EXCEPT ![p] =
            [pc |-> "super_save", pk |-> pk,
             order_number |-> IF order_number = EmptyNumber
                              THEN generated_order_number(now)
                              ELSE order_number]]
    /\ order_last' = [pk |-> pk, given |-> order_number,
                      order_number |-> order_sv'[p].order_number, ret |-> "running"]
    /\ UNCHANGED <<hs_order, now, earlierVars, notOrder>>

\* Order.save(), line 363: super().save(); the unique column refuses a
\* number that another row holds
OrderSaveSuper(p) ==
    /\ order_sv[p].pc = "super_save"
    /\ LET self == order_sv[p]
           taken == \E o \in OrderIds :
                        /\ o # self.pk
                        /\ hs_order[o].exists
                        /\ hs_order[o].order_number = self.order_number
       IN  /\ hs_order' = IF taken THEN hs_order
                          ELSE [hs_order EXCEPT ![self.pk] =
                                   [exists |-> TRUE, order_number |-> self.order_number]]
           /\ order_last' = IF order_last.pk = self.pk
                            THEN [order_last EXCEPT
                                     !.ret = IF taken THEN "IntegrityError" ELSE "ok"]
                            ELSE order_last
    /\ order_sv' = [order_sv EXCEPT ![p] = OrderIdle]
    /\ UNCHANGED <<now, earlierVars, notOrder>>

\* time passes
OrderTick ==
    /\ now < MaxClock
    /\ now' = now + 1
    /\ UNCHANGED <<hs_order, order_sv, order_last, earlierVars, notOrder>>

NextOrder ==
    \/ \E p \in Procs, pk \in OrderIds, order_number \in {EmptyNumber, GivenNumber} :
            OrderSaveNumber(p, pk, order_number)
    \/ \E p \in Procs, pk \in OrderIds :
            OrderSaveNumber(p, pk, hs_order[pk].order_number)
    \/ \E p \in Procs : OrderSaveSuper(p)
    \/ OrderTick

\* C23: a save() of an Order that has an order_number keeps it, and a save()
\* of an Order without one succeeds with a generated number that no other
\* order holds, also when two orders are saved in one second or at once.
C23_OrderNumbersDiffer ==
    /\ (order_last.ret = "ok" /\ order_last.given # EmptyNumber) =>
        hs_order[order_last.pk].order_number = order_last.given
    /\ (order_last.ret # "running" /\ order_last.pk # 0
        /\ order_last.given = EmptyNumber) =>
            /\ order_last.ret = "ok"
            /\ \A o \in OrderIds :
                (o # order_last.pk /\ hs_order[o].exists) =>
                    hs_order[o].order_number # order_last.order_number

\* ------------------------------- e_payment Payment, Transaction, Refund, Payout
\* One record of one of the four models, its row and the instance the caller
\* works on.  A timestamp is None or a value of the clock.
None == 0

PaymentKinds == {"Payment", "Transaction", "Refund", "Payout"}
PAYMENT_STATUS_CHOICES == {"pending", "completed", "failed"}

NoInstance == [kind |-> "none", pk |-> FALSE, has_id |-> FALSE,
               status |-> "pending", timestamp |-> None]
NoPaymentRow == [exists |-> FALSE, has_id |-> FALSE,
                 status |-> "pending", timestamp |-> None]
NoPaymentHistory == [caller_set |-> FALSE, completed_save |-> None, saves |-> 0]

\* Payment.save() up to super().save(): payment_id, then payment_date
Payment_save_keeps_nothing(self, clock) ==
    [self EXCEPT !.has_id = TRUE,
                 !.timestamp = IF self.status = "completed"
                               THEN clock ELSE self.timestamp]

Payment_save(self, clock) ==
    [self EXCEPT !.has_id = TRUE,
                 !.timestamp = IF self.status = "completed" /\ self.timestamp = None
                               THEN clock ELSE self.timestamp]

\* Transaction.save() up to super().save(): processed_at
Transaction_save(self, clock) ==
    [self EXCEPT !.timestamp = IF self.status = "completed" /\ self.timestamp = None
                               THEN clock ELSE self.timestamp]

\* Refund.save() up to super().save(): refund_id, then processed_at
Refund_save(self, clock) ==
    [self EXCEPT !.has_id = TRUE,
                 !.timestamp = IF self.status = "completed" /\ self.timestamp = None
                               THEN clock ELSE self.timestamp]

\* Payout.save() up to super().save(): payout_id, then processed_at
Payout_save(self, clock) ==
    [self EXCEPT !.has_id = TRUE,
                 !.timestamp = IF self.status = "completed" /\ self.timestamp = None
                               THEN clock ELSE self.timestamp]

save_of(self, clock) ==
    CASE self.kind = "Payment"     -> Payment_save(self, clock)
      [] self.kind = "Transaction" -> Transaction_save(self, clock)
      [] self.kind = "Refund"      -> Refund_save(self, clock)
      [] self.kind = "Payout"      -> Payout_save(self, clock)

\* the caller constructs an instance, with a status and perhaps a timestamp
PaymentNew(kind, status, timestamp) ==
    /\ ep_inst.kind = "none"
    /\ timestamp \in {None, now}
    /\ ep_inst' = [NoInstance EXCEPT !.kind = kind, !.status = status,
                                     !.timestamp = timestamp]
    /\ ep_hist' = [ep_hist EXCEPT !.caller_set = (timestamp # None)]
    /\ UNCHANGED <<ep_row, now, earlierVars, notPayment>>

\* the caller assigns a status to the instance
PaymentSetStatus(status) ==
    /\ ep_inst.kind # "none"
    /\ ep_inst' = [ep_inst EXCEPT !.status = status]
    /\ UNCHANGED <<ep_row, ep_hist, now, earlierVars, notPayment>>

\* the caller assigns the timestamp of the instance
PaymentSetTimestamp(timestamp) ==
    /\ ep_inst.kind # "none"
    /\ timestamp \in {None, now}
    /\ ep_inst' = [ep_inst EXCEPT !.timestamp = timestamp]
    /\ ep_hist' = [ep_hist EXCEPT !.caller_set = TRUE]
    /\ UNCHANGED <<ep_row, now, earlierVars, notPayment>>

\* save() of the instance: the assignments of the model's save(), then
\* super().save() writes every field
PaymentSave ==
    /\ ep_inst.kind # "none"
    /\ ep_hist.saves < MaxSaves
    /\ LET self == save_of(ep_inst, now)
       IN  /\ ep_inst' = [self EXCEPT !.pk = TRUE]
           /\ ep_row' = [exists |-> TRUE, has_id |-> self.has_id,
                         status |-> self.status, timestamp |-> self.timestamp]
    /\ ep_hist' = [ep_hist EXCEPT
            !.saves = @ + 1,
            !.completed_save = IF ep_inst.status = "completed" /\ @ = None
                               THEN now ELSE @]
    /\ UNCHANGED <<now, earlierVars, notPayment>>

\* time passes
PaymentTick ==
    /\ now < MaxClock
    /\ now' = now + 1
    /\ UNCHANGED <<ep_inst, ep_row, ep_hist, earlierVars, notPayment>>

NextPayment ==
    \/ \E kind \in PaymentKinds, status \in PAYMENT_STATUS_CHOICES,
          timestamp \in None..MaxClock : PaymentNew(kind, status, timestamp)
    \/ \E status \in PAYMENT_STATUS_CHOICES : PaymentSetStatus(status)
    \/ \E timestamp \in None..MaxClock : PaymentSetTimestamp(timestamp)
    \/ PaymentSave
    \/ PaymentTick

\* C24: while the caller has assigned no timestamp, the stored payment_date
\* (processed_at) is null exactly as long as no save() met status 'completed',
\* and from the first such save on it is the time of that save, whatever was
\* saved later; a record never saved as 'completed' has a null timestamp or
\* one the caller assigned.
C24_TimestampSetOnce ==
    /\ (ep_row.exists /\ ~ep_hist.caller_set) =>
          ep_row.timestamp = ep_hist.completed_save
    /\ (ep_row.exists /\ ep_hist.completed_save = None /\ ep_row.timestamp # None) =>
          ep_hist.caller_set

\* a record completed at one time and saved again later with another status
C24_Witness ==
    /\ ep_row.exists
    /\ ~ep_hist.caller_set
    /\ ep_hist.completed_save # None
    /\ ep_hist.completed_save < now
    /\ ep_hist.saves >= 2
    /\ ep_row.status # "completed"
    /\ ep_row.timestamp = ep_hist.completed_save

\* ------------------------------------------- accounts users and their profiles
\* Users are created by the manager; the post_save receivers of User create
\* and save the profile.  A profile table is keyed by the pk of its user,
\* the OneToOneField allowing one row per user.
MaxSignup == 3
MaxLoop == 5

SignupIds == 1..MaxSignup

\* User.UserType
UserType == {"customer", "seller", "admin", "vendor", "affiliate", "support"}

\* the user types passed to the manager: the three with a profile model and
\* one of the three without
SignupTypes == {"customer", "seller", "admin", "vendor"}

\* the email passed to the manager: none, one a user already has, a new one
EmailChoices == {"", "used", "fresh"}

\* a business_slug is a text followed by the '-<k>' parts appended to it
EmptySlug == [base |-> "", suffix |-> <<>>]
ShopSlug == [base |-> "shop", suffix |-> <<>>]

BusinessNames == {"", "Shop", "SHOP"}
GivenSlugs == {EmptySlug, ShopSlug, [base |-> "shop", suffix |-> <<1>>]}

\* django.utils.text.slugify on these names
slugify(business_name) ==
    CASE business_name \in {"Shop", "SHOP"} -> ShopSlug
      [] OTHER -> EmptySlug

NoSignupUser == [exists |-> FALSE, user_type |-> "customer"]
NoSellerProfile == [exists |-> FALSE, business_name |-> "", business_slug |-> EmptySlug]
NoSignupCall == [name |-> "none", pk |-> 0, ret |-> "none", ended |-> TRUE,
                 business_name |-> "", business_slug |-> EmptySlug]

\* SellerProfile.objects.filter(business_slug=slug).exclude(pk=pk).exists()
slug_in_use(tbl, pk, slug) ==
    \E o \in DOMAIN tbl :
        o # pk /\ tbl[o].exists /\ tbl[o].business_slug = slug

\* f"{original_slug}-{counter}"
slug_with_counter(original_slug, counter) ==
    [original_slug EXCEPT !.suffix = Append(@, counter)]

\* SellerProfile.save(), lines 623-625: the while loop; it is followed for
\* at most MaxLoop rounds
RECURSIVE slug_loop(_, _, _, _, _)
slug_loop_once(tbl, pk, business_slug, original_slug, counter) ==
    [business_slug |-> business_slug, ended |-> TRUE]

slug_loop(tbl, pk, business_slug, original_slug, counter) ==
    IF ~slug_in_use(tbl, pk, business_slug)
    THEN [business_slug |-> business_slug, ended |-> TRUE]
    ELSE IF counter > MaxLoop
         THEN [business_slug |-> business_slug, ended |-> FALSE]
         ELSE slug_loop(tbl, pk, slug_with_counter(original_slug, counter),
                        original_slug, counter + 1)

\* SellerProfile.save(), lines 616-625: the slug the instance holds when
\* super().save() is called
SellerProfile_slug(tbl, self) ==
    LET slug == IF self.business_slug = EmptySlug /\ self.business_name # ""
                THEN slugify(self.business_name)
                ELSE self.business_slug
    IN  IF slug # EmptySlug
        THEN slug_loop(tbl, self.pk, slug, slug, 1)
        ELSE [business_slug |-> slug, ended |-> TRUE]

\* the unique columns business_name and business_slug against the rows of
\* the other users
SellerProfile_unique(tbl, user, business_name, business_slug) ==
    \A o \in DOMAIN tbl :
        (o # user /\ tbl[o].exists) =>
            /\ tbl[o].business_name # business_name
            /\ tbl[o].business_slug # business_slug

\* SellerProfile.save() of the instance self of a user: outcome and table
SellerProfile_save(tbl, user, self) ==
    LET found == SellerProfile_slug(tbl, self)
    IN  IF ~found.ended
        THEN [ret |-> "running", ended |-> FALSE, tbl |-> tbl]
        ELSE IF SellerProfile_unique(tbl, user, self.business_name, found.business_slug)
        THEN [ret |-> "ok", ended |-> TRUE,
              tbl |-> [tbl EXCEPT ![user] =
                        [exists |-> TRUE, business_name |-> self.business_name,
                         business_slug |-> found.business_slug]]]
        ELSE [ret |-> "IntegrityError", ended |-> TRUE, tbl |-> tbl]

\* the default field values of AdminProfile(user=...)
NewAdminProfile == [role |-> "customer_support", security_level |-> 1, flags |-> {}]

\* create_user_profile, lines 839-850, for a created user: the three tables
\* after it; an exception of create() is logged and swallowed
create_user_profile(customer, seller, admin, pk, user_type) ==
    CASE user_type = "customer" ->
            [customer |-> [customer EXCEPT ![pk] = TRUE], seller |-> seller, admin |-> admin]
      [] user_type = "seller" ->
            [customer |-> customer,
             seller |-> SellerProfile_save(seller, pk,
                            [pk |-> 0, business_name |-> "",
                             business_slug |-> EmptySlug]).tbl,
             admin |-> admin]
      [] user_type = "admin" ->
            [customer |-> customer, seller |-> seller,
             admin |-> [admin EXCEPT ![pk] = AdminProfile_save(NewAdminProfile)]]
      [] OTHER ->
            [customer |-> customer, seller |-> seller, admin |-> admin]

\* save_user_profile, lines 853-863: the first profile the user has is saved
\* from the instance loaded from its row
save_user_profile(t, pk) ==
    IF t.customer[pk] THEN t
    ELSE IF t.seller[pk].exists
    THEN [t EXCEPT !.seller = SellerProfile_save(t.seller, pk,
                    [pk |-> pk, business_name |-> t.seller[pk].business_name,
                     business_slug |-> t.seller[pk].business_slug]).tbl]
    ELSE IF t.admin[pk].exists
    THEN [t EXCEPT !.admin = [@ EXCEPT ![pk] = AdminProfile_save(t.admin[pk])]]
    ELSE t

\* the pk the next inserted user gets
next_user_pk == Cardinality({u \in SignupIds : su_user[u].exists}) + 1

\* create_user(), lines 27-33, outcome for an email
create_user_ret(email) ==
    IF email = "" THEN "ValueError"
    ELSE IF email = "used" THEN "IntegrityError"
    ELSE "ok"

\* AdminProfile.objects.get_or_create(user=user, defaults=...), lines 49-55
get_or_create(admin, pk) ==
    IF admin[pk].exists
    THEN admin
    ELSE [admin EXCEPT ![pk] = AdminProfile_save(
            [role |-> "superuser", security_level |-> 4, flags |-> {}])]

\* CustomUserManager.create_user(email, user_type=...), with the receivers
\* that user.save() runs
CreateUser(email, user_type) ==
    /\ next_user_pk <= MaxSignup
    /\ email = "used" => next_user_pk > 1
    /\ LET pk == next_user_pk
           ret == create_user_ret(email)
           t == save_user_profile(
                    create_user_profile(su_customer, su_seller, su_admin, pk, user_type), pk)
       IN  /\ su_last' = [name |-> "create_user", pk |-> IF ret = "ok" THEN pk ELSE 0,
                          ret |-> ret, ended |-> TRUE,
                          business_name |-> "", business_slug |-> EmptySlug]
           /\ IF ret = "ok"
              THEN /\ su_user' = [su_user EXCEPT ![pk] =
                                    [exists |-> TRUE, user_type |-> user_type]]
                   /\ su_customer' = t.customer
                   /\ su_seller' = t.seller
                   /\ su_admin' = t.admin
              ELSE UNCHANGED <<su_user, su_customer, su_seller, su_admin>>
    /\ UNCHANGED <<earlierVars, notSignup>>

\* CustomUserManager.create_superuser(email, user_type=...): user_type is
\* admin unless the caller passes another
CreateSuperuser(email, user_type) ==
    /\ next_user_pk <= MaxSignup
    /\ email = "used" => next_user_pk > 1
    /\ LET pk == next_user_pk
           ret == create_user_ret(email)
           t == save_user_profile(
                    create_user_profile(su_customer, su_seller, su_admin, pk, user_type), pk)
       IN  /\ su_last' = [name |-> "create_superuser", pk |-> IF ret = "ok" THEN pk ELSE 0,
                          ret |-> ret, ended |-> TRUE,
                          business_name |-> "", business_slug |-> EmptySlug]
           /\ IF ret = "ok"
              THEN /\ su_user' = [su_user EXCEPT ![pk] =
                                    [exists |-> TRUE, user_type |-> user_type]]
                   /\ su_customer' = t.customer
                   /\ su_seller' = t.seller
                   /\ su_admin' = get_or_create(t.admin, pk)
              ELSE UNCHANGED <<su_user, su_customer, su_seller, su_admin>>
    /\ UNCHANGED <<earlierVars, notSignup>>

\* save() of the SellerProfile of a seller user, from the loaded instance or,
\* when the user has none, from a new one, with the name and slug assigned
SellerProfileSave(user, business_name, business_slug) ==
    /\ su_user[user].exists
    /\ su_user[user].user_type = "seller"
    /\ LET self == [pk |-> IF su_seller[user].exists THEN user ELSE 0,
                    business_name |-> business_name,
                    business_slug |-> business_slug]
           r == SellerProfile_save(su_seller, user, self)
       IN  /\ su_seller' = r.tbl
           /\ su_last' = [name |-> "seller_save", pk |-> user, ret |-> r.ret,
                          ended |-> r.ended, business_name |-> business_name,
                          business_slug |-> business_slug]
    /\ UNCHANGED <<su_user, su_customer, su_admin, earlierVars, notSignup>>

NextSignup ==
    \/ \E email \in EmailChoices, user_type \in SignupTypes : CreateUser(email, user_type)
    \/ \E email \in EmailChoices, user_type \in SignupTypes : CreateSuperuser(email, user_type)

NextSeller ==
    \/ \E user \in SignupIds, business_name \in BusinessNames, business_slug \in GivenSlugs :
            SellerProfileSave(user, business_name, business_slug)
    \/ \E user \in SignupIds :
            SellerProfileSave(user, su_seller[user].business_name, su_seller[user].business_slug)

\* C26: when create_superuser has returned a user, that user has an
\* AdminProfile, and it has role superuser, security level 5 and all eleven
\* capability flags.
C26_SuperuserProfile ==
    (su_last.name = "create_superuser" /\ su_last.ret = "ok") =>
        /\ su_admin[su_last.pk].exists
        /\ su_admin[su_last.pk].role = "superuser"
        /\ su_admin[su_last.pk].security_level = 5
        /\ su_admin[su_last.pk].flags = Capabilities

\* the profiles a user has, by kind
profile_kinds(u) ==
    {k \in {"customer", "seller", "admin"} :
        \/ k = "customer" /\ su_customer[u]
        \/ k = "seller" /\ su_seller[u].exists
        \/ k = "admin" /\ su_admin[u].exists}

\* C27: when create_user has returned a user of type customer, seller or
\* admin, that user has the profile of the matching kind and no other, also
\* when it is the second or a later seller.
C27_OneMatchingProfile ==
    (su_last.name = "create_user" /\ su_last.ret = "ok"
     /\ su_user[su_last.pk].user_type \in {"customer", "seller", "admin"}) =>
        profile_kinds(su_last.pk) = {su_user[su_last.pk].user_type}

\* the slug a save() starts from: the one given, or the slugified name
original_slug_of(business_name, business_slug) ==
    IF business_slug = EmptySlug /\ business_name # ""
    THEN slugify(business_name)
    ELSE business_slug

\* the counters k >= 1 for which '<slug>-<k>' is used by no other profile
FreeCounters(tbl, pk, original_slug) ==
    {k \in 1..(MaxLoop + 1) : ~slug_in_use(tbl, pk, slug_with_counter(original_slug, k))}

\* the slug the claim expects: the original one when no other profile uses
\* it, else '<slug>-<k>' for the smallest free k
ExpectedSlug(tbl, pk, original_slug) ==
    IF original_slug = EmptySlug \/ ~slug_in_use(tbl, pk, original_slug)
    THEN original_slug
    ELSE slug_with_counter(original_slug,
            CHOOSE k \in FreeCounters(tbl, pk, original_slug) :
                \A j \in FreeCounters(tbl, pk, original_slug) : k <= j)

\* C30: a SellerProfile.save() ends its search loop; it fails only on a
\* business_name another profile has or on an empty slug; when it succeeds
\* the stored slug is the given or slugified one if no other profile uses it
\* and else '<slug>-<k>' for the smallest k >= 1 not in use; afterwards no
\* two profiles share a non-empty slug; and saving a profile again with its
\* own non-empty slug leaves the slug as it was.
C30_SlugStaysUnique ==
    [][ su_last'.name = "seller_save" =>
          LET pk == su_last'.pk
              self_pk == IF su_seller[pk].exists THEN pk ELSE 0
              original_slug == original_slug_of(su_last'.business_name,
                                                su_last'.business_slug)
          IN  /\ su_last'.ended
              /\ su_last'.ret = "IntegrityError" =>
                    \E o \in SignupIds :
                        /\ o # pk
                        /\ su_seller[o].exists
                        /\ \/ su_seller[o].business_name = su_last'.business_name
                           \/ /\ original_slug = EmptySlug
                              /\ su_seller[o].business_slug = EmptySlug
              /\ su_last'.ret = "ok" =>
                    su_seller'[pk].business_slug =
                        ExpectedSlug(su_seller, self_pk, original_slug)
              /\ \A a, b \in SignupIds :
                    (/\ a # b
                     /\ su_seller'[a].exists
                     /\ su_seller'[b].exists
                     /\ su_seller'[a].business_slug # EmptySlug) =>
                        su_seller'[a].business_slug # su_seller'[b].business_slug
              /\ (/\ su_last'.ret = "ok"
                  /\ su_seller[pk].exists
                  /\ su_seller[pk].business_slug # EmptySlug
                  /\ su_last'.business_slug = su_seller[pk].business_slug) =>
                        su_seller'[pk].business_slug = su_seller[pk].business_slug
      ]_vars

\* a profile saved with a slug that another profile uses, as does
\* '<slug>-1', and stored as '<slug>-2'
C30_Witness ==
    /\ su_last.name = "seller_save"
    /\ su_last.ret = "ok"
    /\ su_last.business_slug = ShopSlug
    /\ su_seller[su_last.pk].business_slug = [base |-> "shop", suffix |-> <<2>>]
    /\ \E o \in SignupIds : su_seller[o].exists /\ su_seller[o].business_slug = ShopSlug

\* ----------------------------------------------------------- specifications
\* the state after construction: empty tables, a new profile, no call made
Init ==
    /\ hs_address = [pk \in RecordIds |-> NoAddress]
    /\ hs_image = [pk \in RecordIds |-> NoImage]
    /\ sv = [p \in Procs |-> Idle]
    /\ last = NoSave
    /\ ac_address = [pk \in AccountAddressIds |-> NoAccountAddress]
    /\ ac_last = NoAccountSave
    /\ orm_refresh = FALSE
    /\ profile = NewProfile
    /\ history = <<>>
    /\ instance = [i \in Procs |-> loaded(NewProfile)]
    /\ op = [i \in Procs |-> NotCalled]
    /\ lastcall = NoCall
    /\ admin_profile = [pk \in AdminProfileIds |-> NoAdminProfile]
    /\ admin_last = NoAdminSave
    /\ hs_product = NoProduct
    /\ hs_item = NoOrderItem
    /\ pay_item = NoOrderItem
    /\ price_last = NoPriceSave
    /\ book = NoBook
    /\ book_out = NotRead
    /\ user_row = NoUser
    /\ user_inst = NewUser
    /\ now = 1
    /\ user_last = NoUserCall
    /\ hs_order = [pk \in OrderIds |-> NoOrder]
    /\ order_sv = [p \in Procs |-> OrderIdle]
    /\ order_last = NoOrderSave
    /\ ep_inst = NoInstance
    /\ ep_row = NoPaymentRow
    /\ ep_hist = NoPaymentHistory
    /\ su_user = [u \in SignupIds |-> NoSignupUser]
    /\ su_customer = [u \in SignupIds |-> FALSE]
    /\ su_seller = [u \in SignupIds |-> NoSellerProfile]
    /\ su_admin = [u \in SignupIds |-> NoAdminProfile]
    /\ su_last = NoSignupCall

\* the same, under either behaviour of save() for fields assigned an F() expression
InitLoyalty ==
    /\ hs_address = [pk \in RecordIds |-> NoAddress]
    /\ hs_image = [pk \in RecordIds |-> NoImage]
    /\ sv = [p \in Procs |-> Idle]
    /\ last = NoSave
    /\ ac_address = [pk \in AccountAddressIds |-> NoAccountAddress]
    /\ ac_last = NoAccountSave
    /\ orm_refresh \in BOOLEAN
    /\ profile = NewProfile
    /\ history = <<>>
    /\ instance = [i \in Procs |-> loaded(NewProfile)]
    /\ op = [i \in Procs |-> NotCalled]
    /\ lastcall = NoCall
    /\ admin_profile = [pk \in AdminProfileIds |-> NoAdminProfile]
    /\ admin_last = NoAdminSave
    /\ hs_product = NoProduct
    /\ hs_item = NoOrderItem
    /\ pay_item = NoOrderItem
    /\ price_last = NoPriceSave
    /\ book = NoBook
    /\ book_out = NotRead
    /\ user_row = NoUser
    /\ user_inst = NewUser
    /\ now = 1
    /\ user_last = NoUserCall
    /\ hs_order = [pk \in OrderIds |-> NoOrder]
    /\ order_sv = [p \in Procs |-> OrderIdle]
    /\ order_last = NoOrderSave
    /\ ep_inst = NoInstance
    /\ ep_row = NoPaymentRow
    /\ ep_hist = NoPaymentHistory
    /\ su_user = [u \in SignupIds |-> NoSignupUser]
    /\ su_customer = [u \in SignupIds |-> FALSE]
    /\ su_seller = [u \in SignupIds |-> NoSellerProfile]
    /\ su_admin = [u \in SignupIds |-> NoAdminProfile]
    /\ su_last = NoSignupCall

\* a profile row with any counter value and any stored tier, freshly loaded
InitTier ==
    /\ hs_address = [pk \in RecordIds |-> NoAddress]
    /\ hs_image = [pk \in RecordIds |-> NoImage]
    /\ sv = [p \in Procs |-> Idle]
    /\ last = NoSave
    /\ ac_address = [pk \in AccountAddressIds |-> NoAccountAddress]
    /\ ac_last = NoAccountSave
    /\ orm_refresh = FALSE
    /\ \E n \in 0..MaxTierPoints, t \in Tiers :
        profile = [loyalty_points |-> n, loyalty_points_earned |-> n,
                   loyalty_points_spent |-> 0, loyalty_tier |-> t]
    /\ history = <<>>
    /\ instance = [i \in Procs |-> loaded(profile)]
    /\ op = [i \in Procs |-> NotCalled]
    /\ lastcall = NoCall
    /\ admin_profile = [pk \in AdminProfileIds |-> NoAdminProfile]
    /\ admin_last = NoAdminSave
    /\ hs_product = NoProduct
    /\ hs_item = NoOrderItem
    /\ pay_item = NoOrderItem
    /\ price_last = NoPriceSave
    /\ book = NoBook
    /\ book_out = NotRead
    /\ user_row = NoUser
    /\ user_inst = NewUser
    /\ now = 1
    /\ user_last = NoUserCall
    /\ hs_order = [pk \in OrderIds |-> NoOrder]
    /\ order_sv = [p \in Procs |-> OrderIdle]
    /\ order_last = NoOrderSave
    /\ ep_inst = NoInstance
    /\ ep_row = NoPaymentRow
    /\ ep_hist = NoPaymentHistory
    /\ su_user = [u \in SignupIds |-> NoSignupUser]
    /\ su_customer = [u \in SignupIds |-> FALSE]
    /\ su_seller = [u \in SignupIds |-> NoSellerProfile]
    /\ su_admin = [u \in SignupIds |-> NoAdminProfile]
    /\ su_last = NoSignupCall

\* empty tables and a Book with any prices
InitBook ==
    /\ hs_address = [pk \in RecordIds |-> NoAddress]
    /\ hs_image = [pk \in RecordIds |-> NoImage]
    /\ sv = [p \in Procs |-> Idle]
    /\ last = NoSave
    /\ ac_address = [pk \in AccountAddressIds |-> NoAccountAddress]
    /\ ac_last = NoAccountSave
    /\ orm_refresh = FALSE
    /\ profile = NewProfile
    /\ history = <<>>
    /\ instance = [i \in Procs |-> loaded(NewProfile)]
    /\ op = [i \in Procs |-> NotCalled]
    /\ lastcall = NoCall
    /\ admin_profile = [pk \in AdminProfileIds |-> NoAdminProfile]
    /\ admin_last = NoAdminSave
    /\ hs_product = NoProduct
    /\ hs_item = NoOrderItem
    /\ pay_item = NoOrderItem
    /\ price_last = NoPriceSave
    /\ book \in Books
    /\ book_out = NotRead
    /\ user_row = NoUser
    /\ user_inst = NewUser
    /\ now = 1
    /\ user_last = NoUserCall
    /\ hs_order = [pk \in OrderIds |-> NoOrder]
    /\ order_sv = [p \in Procs |-> OrderIdle]
    /\ order_last = NoOrderSave
    /\ ep_inst = NoInstance
    /\ ep_row = NoPaymentRow
    /\ ep_hist = NoPaymentHistory
    /\ su_user = [u \in SignupIds |-> NoSignupUser]
    /\ su_customer = [u \in SignupIds |-> FALSE]
    /\ su_seller = [u \in SignupIds |-> NoSellerProfile]
    /\ su_admin = [u \in SignupIds |-> NoAdminProfile]
    /\ su_last = NoSignupCall

\* no user saved yet, under either behaviour of save() for F() expressions
InitUser ==
    /\ hs_address = [pk \in RecordIds |-> NoAddress]
    /\ hs_image = [pk \in RecordIds |-> NoImage]
    /\ sv = [p \in Procs |-> Idle]
    /\ last = NoSave
    /\ ac_address = [pk \in AccountAddressIds |-> NoAccountAddress]
    /\ ac_last = NoAccountSave
    /\ orm_refresh \in BOOLEAN
    /\ profile = NewProfile
    /\ history = <<>>
    /\ instance = [i \in Procs |-> loaded(NewProfile)]
    /\ op = [i \in Procs |-> NotCalled]
    /\ lastcall = NoCall
    /\ admin_profile = [pk \in AdminProfileIds |-> NoAdminProfile]
    /\ admin_last = NoAdminSave
    /\ hs_product = NoProduct
    /\ hs_item = NoOrderItem
    /\ pay_item = NoOrderItem
    /\ price_last = NoPriceSave
    /\ book = NoBook
    /\ book_out = NotRead
    /\ user_row = NoUser
    /\ user_inst = NewUser
    /\ now = 1
    /\ user_last = NoUserCall
    /\ hs_order = [pk \in OrderIds |-> NoOrder]
    /\ order_sv = [p \in Procs |-> OrderIdle]
    /\ order_last = NoOrderSave
    /\ ep_inst = NoInstance
    /\ ep_row = NoPaymentRow
    /\ ep_hist = NoPaymentHistory
    /\ su_user = [u \in SignupIds |-> NoSignupUser]
    /\ su_customer = [u \in SignupIds |-> FALSE]
    /\ su_seller = [u \in SignupIds |-> NoSellerProfile]
    /\ su_admin = [u \in SignupIds |-> NoAdminProfile]
    /\ su_last = NoSignupCall

\* a user created with the field defaults and loaded
InitLogin ==
    /\ hs_address = [pk \in RecordIds |-> NoAddress]
    /\ hs_image = [pk \in RecordIds |-> NoImage]
    /\ sv = [p \in Procs |-> Idle]
    /\ last = NoSave
    /\ ac_address = [pk \in AccountAddressIds |-> NoAccountAddress]
    /\ ac_last = NoAccountSave
    /\ orm_refresh \in BOOLEAN
    /\ profile = NewProfile
    /\ history = <<>>
    /\ instance = [i \in Procs |-> loaded(NewProfile)]
    /\ op = [i \in Procs |-> NotCalled]
    /\ lastcall = NoCall
    /\ admin_profile = [pk \in AdminProfileIds |-> NoAdminProfile]
    /\ admin_last = NoAdminSave
    /\ hs_product = NoProduct
    /\ hs_item = NoOrderItem
    /\ pay_item = NoOrderItem
    /\ price_last = NoPriceSave
    /\ book = NoBook
    /\ book_out = NotRead
    /\ user_row = CreatedUser
    /\ user_inst = User_loaded(CreatedUser)
    /\ now = 1
    /\ user_last = NoUserCall
    /\ hs_order = [pk \in OrderIds |-> NoOrder]
    /\ order_sv = [p \in Procs |-> OrderIdle]
    /\ order_last = NoOrderSave
    /\ ep_inst = NoInstance
    /\ ep_row = NoPaymentRow
    /\ ep_hist = NoPaymentHistory
    /\ su_user = [u \in SignupIds |-> NoSignupUser]
    /\ su_customer = [u \in SignupIds |-> FALSE]
    /\ su_seller = [u \in SignupIds |-> NoSellerProfile]
    /\ su_admin = [u \in SignupIds |-> NoAdminProfile]
    /\ su_last = NoSignupCall

SpecDefaultSeq == Init /\ [][NextDefaultSeq]_vars

SpecDefaultConc == Init /\ [][NextDefaultConc]_vars

SpecAccount == Init /\ [][NextAccount]_vars

SpecLoyaltySeq == InitLoyalty /\ [][NextLoyaltySeq]_vars

SpecLoyaltyConc == InitLoyalty /\ [][NextLoyaltyConc]_vars

SpecTier == InitTier /\ [][NextTier]_vars

SpecAdmin == Init /\ [][NextAdmin]_vars

SpecPrice == Init /\ [][NextPrice]_vars

SpecBook == InitBook /\ [][NextBook]_vars

SpecLogin == InitLogin /\ [][NextLogin]_vars

SpecUser == InitUser /\ [][NextUser]_vars

SpecOrder == Init /\ [][NextOrder]_vars

SpecPayment == Init /\ [][NextPayment]_vars

\* three seller users created by create_user: the first has the profile its
\* receiver made, the receivers of the others failed
InitSeller ==
    /\ hs_address = [pk \in RecordIds |-> NoAddress]
    /\ hs_image = [pk \in RecordIds |-> NoImage]
    /\ sv = [p \in Procs |-> Idle]
    /\ last = NoSave
    /\ ac_address = [pk \in AccountAddressIds |-> NoAccountAddress]
    /\ ac_last = NoAccountSave
    /\ orm_refresh = FALSE
    /\ profile = NewProfile
    /\ history = <<>>
    /\ instance = [i \in Procs |-> loaded(NewProfile)]
    /\ op = [i \in Procs |-> NotCalled]
    /\ lastcall = NoCall
    /\ admin_profile = [pk \in AdminProfileIds |-> NoAdminProfile]
    /\ admin_last = NoAdminSave
    /\ hs_product = NoProduct
    /\ hs_item = NoOrderItem
    /\ pay_item = NoOrderItem
    /\ price_last = NoPriceSave
    /\ book = NoBook
    /\ book_out = NotRead
    /\ user_row = NoUser
    /\ user_inst = NewUser
    /\ now = 1
    /\ user_last = NoUserCall
    /\ hs_order = [pk \in OrderIds |-> NoOrder]
    /\ order_sv = [p \in Procs |-> OrderIdle]
    /\ order_last = NoOrderSave
    /\ ep_inst = NoInstance
    /\ ep_row = NoPaymentRow
    /\ ep_hist = NoPaymentHistory
    /\ su_user = [u \in SignupIds |-> [exists |-> TRUE, user_type |-> "seller"]]
    /\ su_customer = [u \in SignupIds |-> FALSE]
    /\ su_seller = [u \in SignupIds |->
                        IF u = 1 THEN [NoSellerProfile EXCEPT !.exists = TRUE]
                        ELSE NoSellerProfile]
    /\ su_admin = [u \in SignupIds |-> NoAdminProfile]
    /\ su_last = [NoSignupCall EXCEPT !.name = "create_user", !.pk = MaxSignup, !.ret = "ok"]

SpecSignup == Init /\ [][NextSignup]_vars

SpecSeller == InitSeller /\ [][NextSeller]_vars

====
